---- MODULE Spec2Model ----
(***************************************************************************)
(* Verification model of the zpx_router program                            *)
(* (programs/zpx_router/src/lib.rs) and of the adapter programs it calls.  *)
(*                                                                         *)
(* Integer widths.  The program computes on u64 values and widens to u128  *)
(* for the fee cap comparisons.  TLC integers are 32 bit, so the u64 type  *)
(* is modelled by the range 0..U64_MAX with a scaled U64_MAX; every        *)
(* product of a u64 value with a basis-point value then fits a TLC         *)
(* integer, which plays the role of u128 (no product ever overflows it).   *)
(***************************************************************************)
EXTENDS Integers, Sequences, FiniteSets, TLC

\* scaled u64::MAX (see the header)
U64_MAX == 131071

\* lib.rs:20  const FEE_CAP_BPS: u16 = 5
FEE_CAP_BPS == 5

\* lib.rs:21  const RELAYER_FEE_CAP_BPS: u16 = 1000
RELAYER_FEE_CAP_BPS == 1000

\* the basis-point denominator 10_000u128 of lib.rs:1162, 1167, 624, 629
BPS_DENOM == 10000

\* lib.rs:212, 771  adapters: [Pubkey; 8]
MAX_ADAPTERS == 8

\* lib.rs:1146  const MAX_SPOKES: usize = 32
MAX_SPOKES == 32

\* lib.rs:264  u16::MAX, the width of the chain ids in the emitted events
U16_MAX == 65535

\* lib.rs:244, 1283  payload_len <= 512
MAX_PAYLOAD_LEN == 512

(***************************************************************************)
(* Identities (Pubkey values).                                             *)
(***************************************************************************)
\* Pubkey::default()
DEFAULT_PUBKEY == "11111111111111111111111111111111"

\* lib.rs:18  declare_id!
PROGRAM_ID == "zoopxFVyJcE2LAcMqDnKjWx9jv7UWDkDvqviVVypVPz"

\* anchor_spl::token::ID / Token::id()
TOKEN_ID == "TokenProgram"

\* adapter program ids
AdapterIds == {"adapterA", "adapterB"}

\* the token mint of the model
USDC == "usdc"

\* a second mint, usdc_cctp.rs:26-29
OTHER_MINT == "other_mint"

(***************************************************************************)
(* Persistent state.                                                       *)
(*   config    the Config account (PDA "zpx_config")                       *)
(*   registry  the Registry account (PDA "hub_registry")                   *)
(*   replay    the replay-guard records, by message hash                   *)
(*   telemetry number of finalize events emitted, by message hash          *)
(*   balances  the SPL token accounts' amounts                             *)
(*   events    the events emitted by the last transaction                  *)
(*   last      the last transaction: instruction, inputs, result           *)
(***************************************************************************)
VARIABLES config, registry, replay, telemetry, balances, adapter_replay,
          events, last, rejected, paused_once

StateVars ==
    <<config, registry, replay, telemetry, balances, adapter_replay>>

vars ==
    <<config, registry, replay, telemetry, balances, adapter_replay, events,
      last, rejected, paused_once>>

(***************************************************************************)
(* Fee engine: compute_fees_and_forward, lib.rs:1153-1177                  *)
(***************************************************************************)

\* a u64 multiplication that is NOT widened: wraps modulo 2^64
mul_u64_wrapping(a, b) == (a * b) % (U64_MAX + 1)

\* (x as u128) * (y as u128): the widened product, never overflows
mul_u128(a, b) == a * b

\* u64::wrapping_add
wrapping_add(a, b) == [some |-> TRUE, val |-> (a + b) % (U64_MAX + 1)]

\* u64::checked_add: None on overflow
checked_add(a, b) ==
    IF a + b > U64_MAX THEN [some |-> FALSE, val |-> 0]
    ELSE [some |-> TRUE, val |-> a + b]

\* the relayer cap comparison with a strict bound
relayer_cap_ok_strict(amount, relayer_fee, relayer_bps_cap) ==
    mul_u128(relayer_fee, BPS_DENOM) < mul_u128(amount, relayer_bps_cap)

\* lib.rs:1167  relayer_fee * 10_000 <= amount * relayer_bps_cap
relayer_cap_ok(amount, relayer_fee, relayer_bps_cap) ==
    mul_u128(relayer_fee, BPS_DENOM) <= mul_u128(amount, relayer_bps_cap)

\* lib.rs:1162  protocol_fee * 10_000 <= amount * FEE_CAP_BPS
protocol_cap_ok(amount, protocol_fee) ==
    mul_u128(protocol_fee, BPS_DENOM) <= mul_u128(amount, FEE_CAP_BPS)

FeeErr(e) == [res |-> e, forward_amount |-> 0, total_fees |-> 0]

\* the subtraction without the total_fees <= amount guard (wrapping_sub)
forward_unguarded(amount, total_fees) ==
    [res |-> "Ok",
     forward_amount |-> (amount - total_fees + U64_MAX + 1) % (U64_MAX + 1),
     total_fees |-> total_fees]

\* lib.rs:1174-1176  require!(total_fees <= amount); amount - total_fees
forward_guarded(amount, total_fees) ==
    IF ~(total_fees <= amount) THEN FeeErr("FeesExceedAmount")
    ELSE [res |-> "Ok", forward_amount |-> amount - total_fees,
          total_fees |-> total_fees]

\* the fee engine with the protocol cap tested before the amount
compute_fees_caps_first(amount, protocol_fee, relayer_fee, relayer_bps_cap) ==
    IF ~protocol_cap_ok(amount, protocol_fee)
    THEN FeeErr("ProtocolFeeTooHigh")
    ELSE IF ~(amount > 0) THEN FeeErr("ZeroAmount")
    ELSE IF relayer_bps_cap > 0
            /\ ~relayer_cap_ok(amount, relayer_fee, relayer_bps_cap)
         THEN FeeErr("RelayerFeeTooHigh")
    ELSE LET total == checked_add(protocol_fee, relayer_fee) IN
         IF ~total.some THEN FeeErr("MathOverflow")
         ELSE forward_guarded(amount, total.val)

\* lib.rs:1153-1177
compute_fees_and_forward(amount, protocol_fee, relayer_fee, relayer_bps_cap) ==
    IF ~(amount > 0) THEN FeeErr("ZeroAmount")
    ELSE IF ~protocol_cap_ok(amount, protocol_fee)
         THEN FeeErr("ProtocolFeeTooHigh")
    ELSE IF relayer_bps_cap > 0
            /\ ~relayer_cap_ok(amount, relayer_fee, relayer_bps_cap)
         THEN FeeErr("RelayerFeeTooHigh")
    ELSE LET total == checked_add(protocol_fee, relayer_fee) IN
         IF ~total.some THEN FeeErr("MathOverflow")
         ELSE forward_guarded(amount, total.val)

(***************************************************************************)
(* Derived addresses and the SPL token accounts.  find_program_address is  *)
(* a fixed injective map from seeds to addresses; the token program is an  *)
(* external collaborator and only its transfer instruction is modelled.    *)
(***************************************************************************)
\* lib.rs:1260-1261  find_program_address(["hub_protocol_vault", mint])
hub_protocol_vault_pda(mint) ==
    IF mint = USDC THEN "pda_hub_protocol_vault_usdc"
    ELSE "pda_hub_protocol_vault_other"

\* lib.rs:661-662  find_program_address(["hub_relayer_vault", mint])
hub_relayer_vault_pda(mint) ==
    IF mint = USDC THEN "pda_hub_relayer_vault_usdc"
    ELSE "pda_hub_relayer_vault_other"

\* lib.rs:287-293  the associated token address of (wallet, token program,
\* mint)
associated_token_address(wallet, token_program, mint) ==
    IF token_program = TOKEN_ID /\ mint = USDC /\ wallet = TOKEN_ID
    THEN "ata_tokenprogram_usdc"
    ELSE IF token_program = TOKEN_ID /\ mint = USDC /\ wallet = "treasury"
    THEN "ata_treasury_usdc"
    ELSE IF token_program = TOKEN_ID /\ mint = OTHER_MINT
            /\ wallet = TOKEN_ID
    THEN "ata_tokenprogram_other"
    ELSE "ata_unallocated"

\* The token accounts: program owner of the account, token authority (the
\* `owner` field of spl_token::state::Account) and mint.
TokenAccounts ==
    [k \in {"user_ata", "ata_tokenprogram_usdc", "ata_treasury_usdc",
            "adapter_target_ata", "pda_hub_protocol_vault_usdc", "vault_b",
            "pda_hub_relayer_vault_usdc", "relayer_ata", "mallory_ata",
            "user_ata_other", "ata_tokenprogram_other",
            "adapter_target_ata_other"} |->
        [program_owner |-> TOKEN_ID,
         mint |-> IF k \in {"user_ata_other", "ata_tokenprogram_other",
                            "adapter_target_ata_other"}
                  THEN OTHER_MINT ELSE USDC,
         owner |->
            CASE k = "user_ata" -> "user"
              [] k = "user_ata_other" -> "user"
              [] k = "ata_tokenprogram_other" -> TOKEN_ID
              [] k = "adapter_target_ata_other" -> "adapterA"
              [] k = "ata_tokenprogram_usdc" -> TOKEN_ID
              [] k = "ata_treasury_usdc" -> "treasury"
              [] k = "adapter_target_ata" -> "adapterA"
              [] k = "pda_hub_protocol_vault_usdc" ->
                     "pda_hub_protocol_vault_usdc"
              [] k = "vault_b" -> "pda_hub_protocol_vault_usdc"
              [] k = "pda_hub_relayer_vault_usdc" ->
                     "pda_hub_relayer_vault_usdc"
              [] k = "relayer_ata" -> "relayer"
              [] k = "mallory_ata" -> "mallory"]]

TokenAccountKeys == DOMAIN TokenAccounts

\* the user's token balance before the first transaction
InitialUserBalance == 15000

(***************************************************************************)
(* Handlers are operators from the state a transaction starts in (st) and  *)
(* the instruction's inputs to an outcome: the result, the working state   *)
(* at the point the handler returned, and the number of token transfers    *)
(* performed up to that point.                                             *)
(***************************************************************************)
Ok(st, moved) == [res |-> "Ok", st |-> st, moved |-> moved]

Err(e, st, moved) == [res |-> e, st |-> st, moved |-> moved]

\* emit!(..)
Emit(st, ev) == [st EXCEPT !.events = Append(@, ev)]

\* Option<T>
Some(v) == [some |-> TRUE, val |-> v]

NoneInt == [some |-> FALSE, val |-> 0]

NoneKey == [some |-> FALSE, val |-> DEFAULT_PUBKEY]

NoneBool == [some |-> FALSE, val |-> FALSE]

\* a patch that writes the field even when the option is None
set_opt_always(c, f, o) == [c EXCEPT ![f] = o.val]

\* if let Some(v) = o { c.f = v; }
set_opt(c, f, o) == IF o.some THEN [c EXCEPT ![f] = o.val] ELSE c

\* a runtime that keeps what a failed instruction wrote
runtime_commit_keep(pre, post, res) == post

\* The runtime's transaction semantics: the working state is persisted when
\* the instruction returns Ok and discarded (with its logs) when it returns
\* Err.
runtime_commit(pre, post, res) ==
    IF res = "Ok" THEN post ELSE pre

(***************************************************************************)
(* Config: lib.rs:758-774                                                  *)
(***************************************************************************)
DefaultConfig ==
    [initialized |-> FALSE,
     admin |-> DEFAULT_PUBKEY,
     fee_recipient |-> DEFAULT_PUBKEY,
     src_chain_id |-> 0,
     relayer_fee_bps |-> 0,
     protocol_fee_bps |-> 0,
     relayer_pubkey |-> DEFAULT_PUBKEY,
     accept_any_token |-> FALSE,
     allowed_token_mint |-> DEFAULT_PUBKEY,
     direct_relayer_payout_default |-> FALSE,
     min_forward_amount |-> 0,
     adapters_len |-> 0,
     adapters |-> [i \in 1..MAX_ADAPTERS |-> DEFAULT_PUBKEY],
     paused |-> FALSE]

\* lib.rs:68-73, 128-133
ConfigUpdated(cfg) ==
    [type |-> "ConfigUpdated", admin |-> cfg.admin,
     fee_recipient |-> cfg.fee_recipient, src_chain_id |-> cfg.src_chain_id,
     relayer_fee_bps |-> cfg.relayer_fee_bps]

\* the admin check without the comparison
is_admin_unchecked(cfg, authority) == TRUE

\* lib.rs:92-95, 146-149, 202-205, 225-228  cfg.admin == authority.key()
is_admin(cfg, authority) == cfg.admin = authority

\* lib.rs:45-48 and 102-103: the relayer fee written to Config is capped
relayer_bps_ok(r) == r <= RELAYER_FEE_CAP_BPS

\* a protocol fee check that accepts every value
protocol_bps_unchecked(pfb) == TRUE

\* lib.rs:49-52 and 106-107: the protocol fee written to Config is capped
protocol_bps_ok(pfb) == pfb <= FEE_CAP_BPS

\* an initialization that leaves the admin field at its default
stored_admin_default(a) == DEFAULT_PUBKEY

\* lib.rs:54  cfg.admin = admin
stored_admin(a) == a.admin

\* an `init` that creates the account over an existing one
init_account_reusable(acc) == FALSE

\* lib.rs:779-786: `init` creates the account through the system program,
\* which refuses an address that is already in use
init_account_in_use(acc) == acc.initialized

\* lib.rs:27-75
initialize_config(st, a) ==
    IF init_account_in_use(st.config)
    THEN Err("AccountAlreadyInUse", st, 0)
    ELSE
    LET created == [st EXCEPT !.config =
                        [DefaultConfig EXCEPT !.initialized = TRUE]] IN
    IF ~(PROGRAM_ID # DEFAULT_PUBKEY)
    THEN Err("PlaceholderProgramId", created, 0)
    ELSE IF ~relayer_bps_ok(a.relayer_fee_bps)
    THEN Err("RelayerFeeTooHigh", created, 0)
    ELSE IF ~protocol_bps_ok(a.protocol_fee_bps)
    THEN Err("ProtocolFeeTooHigh", created, 0)
    ELSE
    LET cfg == [initialized |-> TRUE,
                admin |-> stored_admin(a),
                fee_recipient |-> a.fee_recipient,
                src_chain_id |-> a.src_chain_id,
                relayer_fee_bps |-> a.relayer_fee_bps,
                protocol_fee_bps |-> a.protocol_fee_bps,
                relayer_pubkey |-> a.relayer_pubkey,
                accept_any_token |-> a.accept_any_token,
                allowed_token_mint |-> a.allowed_token_mint,
                direct_relayer_payout_default |->
                    a.direct_relayer_payout_default,
                min_forward_amount |-> a.min_forward_amount,
                adapters_len |-> 0,
                adapters |-> [i \in 1..MAX_ADAPTERS |-> DEFAULT_PUBKEY],
                paused |-> FALSE]
    IN Ok(Emit([st EXCEPT !.config = cfg], ConfigUpdated(cfg)), 0)

\* lib.rs:829-839: the config account of UpdateConfig is not declared `mut`,
\* so the handler works on its deserialized copy and the account's exit
\* routine, which writes the copy back, is generated for `mut` accounts only.
UpdateConfig_config_is_mut == FALSE

\* what the end of an instruction persists of the handler's Config copy
exit_config(st, cfg, is_mut) ==
    IF is_mut THEN [st EXCEPT !.config = cfg] ELSE st

\* lib.rs:77-135
update_config(st, authority, p) ==
    IF ~st.config.initialized THEN Err("AccountNotInitialized", st, 0)
    ELSE IF ~(st.config.admin = authority) \/ ~is_admin(st.config, authority)
    THEN Err("Unauthorized", st, 0)
    ELSE
    LET c2 == set_opt(set_opt(st.config, "fee_recipient", p.fee_recipient),
                      "src_chain_id", p.src_chain_id)
    IN
    IF p.relayer_fee_bps.some /\ ~relayer_bps_ok(p.relayer_fee_bps.val)
    THEN Err("RelayerFeeTooHigh", st, 0)
    ELSE
    LET c3 == set_opt(c2, "relayer_fee_bps", p.relayer_fee_bps) IN
    IF p.protocol_fee_bps.some /\ ~protocol_bps_ok(p.protocol_fee_bps.val)
    THEN Err("ProtocolFeeTooHigh", st, 0)
    ELSE
    LET c4 == set_opt(c3, "protocol_fee_bps", p.protocol_fee_bps)
        c5 == set_opt(c4, "relayer_pubkey", p.relayer_pubkey)
        c6 == set_opt(c5, "accept_any_token", p.accept_any_token)
        c7 == set_opt(c6, "allowed_token_mint", p.allowed_token_mint)
        c8 == set_opt(c7, "direct_relayer_payout_default",
                      p.direct_relayer_payout_default)
        c9 == set_opt(c8, "min_forward_amount", p.min_forward_amount)
        c10 == set_opt(c9, "paused", p.paused)
    IN Ok(Emit(exit_config(st, c10, UpdateConfig_config_is_mut),
               ConfigUpdated(c10)), 0)

\* an allowlist that admits every program
is_allowed_adapter_any(cfg, program) == TRUE

\* lib.rs:1224-1232
is_allowed_adapter_cfg(cfg, program) ==
    \E i \in 1..cfg.adapters_len : cfg.adapters[i] = program

\* a list that never counts as full
adapter_list_never_full(len) == FALSE

\* lib.rs:212: require!(len < 8, AdapterListFull)
adapter_list_full(len) == ~(len < MAX_ADAPTERS)

\* lib.rs:199-220
add_adapter(st, authority, adapter) ==
    LET cfg == st.config IN
    IF ~cfg.initialized THEN Err("AccountNotInitialized", st, 0)
    ELSE IF ~is_admin(cfg, authority) THEN Err("Unauthorized", st, 0)
    ELSE IF \E i \in 1..cfg.adapters_len : cfg.adapters[i] = adapter
    THEN Err("AdapterAlreadyExists", st, 0)
    ELSE IF adapter_list_full(cfg.adapters_len)
    THEN Err("AdapterListFull", st, 0)
    ELSE
    LET new == [cfg EXCEPT !.adapters[cfg.adapters_len + 1] = adapter,
                           !.adapters_len = @ + 1]
    IN Ok(Emit([st EXCEPT !.config = new],
               [type |-> "AdapterAdded", admin |-> cfg.admin,
                program |-> adapter]), 0)

\* a removal that clears the found slot and leaves the last one in place
clear_slot(adapters, i, len) == [adapters EXCEPT ![i] = DEFAULT_PUBKEY]

\* lib.rs:238-243: swap-with-last removal; i and len are 1-based here
swap_remove(adapters, i, len) ==
    LET moved == IF i # len THEN [adapters EXCEPT ![i] = adapters[len]]
                 ELSE adapters
    IN [moved EXCEPT ![len] = DEFAULT_PUBKEY]

\* lib.rs:222-249
remove_adapter(st, authority, adapter) ==
    LET cfg == st.config
        len == cfg.adapters_len
    IN
    IF ~cfg.initialized THEN Err("AccountNotInitialized", st, 0)
    ELSE IF ~is_admin(cfg, authority) THEN Err("Unauthorized", st, 0)
    ELSE IF ~(\E i \in 1..len : cfg.adapters[i] = adapter)
    THEN Err("AdapterNotAllowed", st, 0)
    ELSE
    LET i == CHOOSE j \in 1..len :
                 /\ cfg.adapters[j] = adapter
                 /\ \A k \in 1..(j - 1) : cfg.adapters[k] # adapter
        new == [cfg EXCEPT !.adapters = swap_remove(cfg.adapters, i, len),
                           !.adapters_len = @ - 1]
    IN Ok(Emit([st EXCEPT !.config = new],
               [type |-> "AdapterRemoved", admin |-> cfg.admin,
                program |-> adapter]), 0)

(***************************************************************************)
(* Token transfers (CPI into the SPL token program)                        *)
(***************************************************************************)
\* token::transfer(CpiContext{from, to, authority}, amount): the SPL token
\* program moves `amount` when both accounts are token accounts of one
\* mint, the source holds the amount and `authority` is the source's owner
\* and has signed; otherwise it returns an error.
token_transfer(st, from, to, authority, signed, amount) ==
    IF /\ from \in TokenAccountKeys /\ to \in TokenAccountKeys
       /\ TokenAccounts[from].mint = TokenAccounts[to].mint
       /\ st.balances[from] >= amount
       /\ TokenAccounts[from].owner = authority
       /\ signed
    THEN [ok |-> TRUE,
          st |-> IF from = to THEN st
                 ELSE [st EXCEPT !.balances[from] = @ - amount,
                                 !.balances[to] = @ + amount]]
    ELSE [ok |-> FALSE, st |-> st]

\* lib.rs:1260-1261: the bump find_program_address returns with the
\* address; its value is fixed by the seeds and the program id
hub_protocol_vault_bump(mint) == IF mint = USDC THEN 254 ELSE 255

\* a check that accepts the derived address only
validate_vault_pda_only(acc, mint) ==
    LET expected_vault == hub_protocol_vault_pda(mint)
        bump == hub_protocol_vault_bump(mint)
        out(res) == [res |-> res, expected |-> expected_vault, bump |-> bump]
    IN
    IF ~(acc.program_owner = TOKEN_ID) THEN out("InvalidTokenProgram")
    ELSE IF acc.key = expected_vault
    THEN IF acc.owner = expected_vault THEN out("Ok")
         ELSE out("InvalidVaultOwner")
    ELSE out("InvalidVaultPda")

\* lib.rs:1255-1279 on an account given by its address, the program that
\* owns it and the authority recorded in it
validate_vault(acc, mint) ==
    LET expected_vault == hub_protocol_vault_pda(mint)
        bump == hub_protocol_vault_bump(mint)
        out(res) == [res |-> res, expected |-> expected_vault, bump |-> bump]
    IN
    IF ~(acc.program_owner = TOKEN_ID) THEN out("InvalidTokenProgram")
    ELSE IF acc.key = expected_vault
    THEN IF acc.owner = expected_vault THEN out("Ok")
         ELSE out("InvalidVaultOwner")
    ELSE IF acc.owner = expected_vault THEN out("Ok")
    ELSE out("InvalidVaultPda")

\* lib.rs:1255-1279 on one of the token accounts
validate_vault_pda_or_authority(vault, mint) ==
    validate_vault([key |-> vault,
                    program_owner |-> TokenAccounts[vault].program_owner,
                    owner |-> TokenAccounts[vault].owner], mint)

\* lib.rs:144-197 with the account constraints of lib.rs:794-808
admin_withdraw(st, a) ==
    LET cfg == st.config IN
    IF ~cfg.initialized THEN Err("AccountNotInitialized", st, 0)
    ELSE IF ~(a.hub_protocol_vault \in TokenAccountKeys
              /\ a.destination \in TokenAccountKeys)
    THEN Err("AccountNotInitialized", st, 0)
    ELSE IF ~(TokenAccounts[a.destination].mint = a.mint)
    THEN Err("ConstraintRaw", st, 0)
    ELSE IF ~is_admin(cfg, a.authority) THEN Err("Unauthorized", st, 0)
    ELSE
    LET v == validate_vault_pda_or_authority(a.hub_protocol_vault, a.mint) IN
    IF v.res # "Ok" THEN Err(v.res, st, 0)
    ELSE
    LET authority_ai == IF a.hub_protocol_vault = v.expected
                        THEN a.hub_protocol_vault
                        ELSE a.hub_protocol_pda
        t == token_transfer(st, a.hub_protocol_vault, a.destination,
                            authority_ai, authority_ai = v.expected,
                            a.amount)
    IN IF ~t.ok THEN Err("TokenTransferFailed", st, 0)
       ELSE Ok(t.st, 1)

(***************************************************************************)
(* universal_bridge_transfer: lib.rs:251-392, accounts lib.rs:912-932      *)
(***************************************************************************)
\* lib.rs:1235-1246
validate_common(amount, payload_len, paused, src_chain_id) ==
    IF ~(~paused) THEN "Paused"
    ELSE IF ~(src_chain_id # 0) THEN "SrcChainNotSet"
    ELSE IF ~(amount > 0) THEN "ZeroAmount"
    ELSE IF ~(payload_len <= MAX_PAYLOAD_LEN) THEN "PayloadTooLarge"
    ELSE "Ok"

\* a size check that accepts every length
validate_payload_len_lenient(payload_len) == "Ok"

\* lib.rs:1282-1285
validate_payload_len(payload_len) ==
    IF ~(payload_len <= MAX_PAYLOAD_LEN) THEN "PayloadTooLarge" ELSE "Ok"

\* lib.rs:340, 346, 348  [0u8; 32]
ZERO_HASH == [i \in 1..32 |-> 0]

\* `x as u16`
as_u16(x) == x % (U16_MAX + 1)

\* the Accounts constraints of UniversalBridgeTransfer, lib.rs:912-932
ubt_accounts(st, a) ==
    IF ~st.config.initialized THEN "AccountNotInitialized"
    ELSE IF ~({a.from, a.fee_recipient_ata, a.target_token_account}
              \subseteq TokenAccountKeys)
    THEN "AccountNotInitialized"
    ELSE IF ~(TokenAccounts[a.from].owner = a.user
              /\ TokenAccounts[a.from].mint = a.mint)
    THEN "ConstraintRaw"
    ELSE IF ~(TokenAccounts[a.fee_recipient_ata].mint = a.mint)
    THEN "ConstraintRaw"
    ELSE IF ~(TokenAccounts[a.fee_recipient_ata].owner
                 = st.config.fee_recipient)
    THEN "InvalidFeeRecipientAta"
    ELSE IF ~(TokenAccounts[a.target_token_account].mint = a.mint)
    THEN "ConstraintRaw"
    ELSE "Ok"

\* a width guard that lets every chain id through
chain_ids_unchecked(src_chain_id, dst_chain_id) == TRUE

\* lib.rs:262-266
chain_ids_in_range(src_chain_id, dst_chain_id) ==
    src_chain_id <= U16_MAX /\ dst_chain_id <= U16_MAX

\* the checks of the handler up to the fee computation, lib.rs:261-280
ubt_checks(cfg, a) ==
    IF ~chain_ids_in_range(cfg.src_chain_id, a.dst_chain_id)
    THEN "ChainIdOutOfRange"
    ELSE IF ~(~cfg.paused) THEN "Paused"
    ELSE IF ~(cfg.src_chain_id # 0) THEN "SrcChainNotSet"
    ELSE IF validate_common(a.amount, a.payload_len, cfg.paused,
                            cfg.src_chain_id) # "Ok"
    THEN validate_common(a.amount, a.payload_len, cfg.paused,
                         cfg.src_chain_id)
    ELSE IF validate_payload_len(a.payload_len) # "Ok"
    THEN validate_payload_len(a.payload_len)
    ELSE IF ~is_allowed_adapter_cfg(cfg, a.target_adapter_program)
    THEN "AdapterNotAllowed"
    ELSE "Ok"

\* the fee recipient account checks, lib.rs:284-306
ubt_fee_ata_checks(cfg, a) ==
    IF ~(a.fee_recipient_ata
            = associated_token_address(cfg.fee_recipient, TOKEN_ID, a.mint))
    THEN "InvalidFeeRecipientAta"
    ELSE IF ~(TokenAccounts[a.fee_recipient_ata].owner = TOKEN_ID)
    THEN "InvalidTokenProgram"
    ELSE IF ~(TokenAccounts[a.fee_recipient_ata].mint = a.mint)
    THEN "InvalidFeeRecipientAta"
    ELSE "Ok"

\* the events of a successful transfer, lib.rs:338-390
ubt_emit(st, a, forward_amount, total_fees) ==
    LET cfg == st.config
        e1 == [type |-> "BridgeInitiated", user |-> a.user,
               token |-> a.mint, target |-> a.target_adapter_program,
               forwarded_amount |-> forward_amount,
               protocol_fee |-> a.protocol_fee,
               relayer_fee |-> a.relayer_fee, payload_hash |-> ZERO_HASH,
               src_chain_id |-> as_u16(cfg.src_chain_id),
               dst_chain_id |-> as_u16(a.dst_chain_id), nonce |-> a.nonce]
        e2 == [type |-> "UniversalBridgeInitiated",
               payload_hash |-> ZERO_HASH, message_hash |-> ZERO_HASH,
               global_route_id |-> ZERO_HASH, user |-> a.user,
               token |-> a.mint, target |-> a.target_adapter_program,
               forwarded_amount |-> forward_amount,
               protocol_fee |-> a.protocol_fee,
               relayer_fee |-> a.relayer_fee,
               src_chain_id |-> as_u16(cfg.src_chain_id),
               dst_chain_id |-> as_u16(a.dst_chain_id), nonce |-> a.nonce]
        e3 == [type |-> "FeeAppliedSource", message_hash |-> ZERO_HASH,
               asset |-> a.mint, payer |-> a.user,
               target |-> a.target_adapter_program,
               protocol_fee |-> a.protocol_fee,
               relayer_fee |-> a.relayer_fee,
               fee_recipient |-> cfg.fee_recipient]
        s2 == Emit(Emit(st, e1), e2)
    IN IF total_fees > 0 THEN Emit(s2, e3) ELSE s2

\* the two transfers of lib.rs:308-336, then the events
ubt_move(st, a, forward_amount, total_fees) ==
    LET t1 == IF total_fees > 0
              THEN token_transfer(st, a.from, a.fee_recipient_ata, a.user,
                                  TRUE, total_fees)
              ELSE [ok |-> TRUE, st |-> st]
        n1 == IF total_fees > 0 THEN 1 ELSE 0
    IN
    IF ~t1.ok THEN Err("TokenTransferFailed", st, 0)
    ELSE
    LET t2 == IF forward_amount > 0
              THEN token_transfer(t1.st, a.from, a.target_token_account,
                                  a.user, TRUE, forward_amount)
              ELSE [ok |-> TRUE, st |-> t1.st]
        n2 == IF forward_amount > 0 THEN n1 + 1 ELSE n1
    IN
    IF ~t2.ok THEN Err("TokenTransferFailed", t1.st, n1)
    ELSE Ok(ubt_emit(t2.st, a, forward_amount, total_fees), n2)

\* a handler that moves the funds first and validates the fees afterwards
universal_bridge_transfer_move_first(st, a) ==
    IF ubt_accounts(st, a) # "Ok" THEN Err(ubt_accounts(st, a), st, 0)
    ELSE IF ubt_checks(st.config, a) # "Ok"
    THEN Err(ubt_checks(st.config, a), st, 0)
    ELSE
    LET total == (a.protocol_fee + a.relayer_fee) % (U64_MAX + 1)
        fwd == IF total <= a.amount THEN a.amount - total ELSE 0
        m == ubt_move(st, a, fwd, total)
        f == compute_fees_and_forward(a.amount, a.protocol_fee,
                                      a.relayer_fee,
                                      st.config.relayer_fee_bps)
    IN
    IF m.res # "Ok" THEN m
    ELSE IF f.res # "Ok" THEN Err(f.res, m.st, m.moved)
    ELSE IF ubt_fee_ata_checks(st.config, a) # "Ok"
    THEN Err(ubt_fee_ata_checks(st.config, a), m.st, m.moved)
    ELSE m

universal_bridge_transfer(st, a) ==
    IF ubt_accounts(st, a) # "Ok" THEN Err(ubt_accounts(st, a), st, 0)
    ELSE IF ubt_checks(st.config, a) # "Ok"
    THEN Err(ubt_checks(st.config, a), st, 0)
    ELSE
    LET f == compute_fees_and_forward(a.amount, a.protocol_fee,
                                      a.relayer_fee,
                                      st.config.relayer_fee_bps)
    IN
    IF f.res # "Ok" THEN Err(f.res, st, 0)
    ELSE IF ubt_fee_ata_checks(st.config, a) # "Ok"
    THEN Err(ubt_fee_ata_checks(st.config, a), st, 0)
    ELSE ubt_move(st, a, f.forward_amount, f.total_fees)

(***************************************************************************)
(* Spoke registry: lib.rs:1185-1207                                        *)
(***************************************************************************)
\* lib.rs:1150  const SPOKE_METADATA_LEN: usize = 16
SPOKE_METADATA_LEN == 16

\* the registry account before initialize_registry
DefaultRegistry == [initialized |-> FALSE, spokes_len |-> 0, spokes |-> <<>>]

\* lib.rs:484-490  the metadata string, cut or zero-padded to 16 bytes
metadata_bytes(m) ==
    [i \in 1..SPOKE_METADATA_LEN |-> IF i <= Len(m) THEN m[i] ELSE 0]

NoneMeta == [some |-> FALSE, val |-> <<>>]

\* lib.rs:137-142
initialize_registry(st) ==
    IF st.registry.initialized THEN Err("AccountAlreadyInUse", st, 0)
    ELSE Ok([st EXCEPT !.registry =
                 [initialized |-> TRUE, spokes_len |-> 0, spokes |-> <<>>]],
            0)

\* lib.rs:465-468, 507-510, 542-545, 562-565
spoke_admin_ok(cfg, authority, admin) ==
    cfg.admin = authority \/ admin = cfg.admin

\* the linear lookup of lib.rs:512-519: index of the first entry with the
\* id, 0 when there is none
find_spoke(reg, spoke_id) ==
    IF \E i \in 1..reg.spokes_len : reg.spokes[i].spoke_id = spoke_id
    THEN CHOOSE i \in 1..reg.spokes_len :
            /\ reg.spokes[i].spoke_id = spoke_id
            /\ \A k \in 1..(i - 1) : reg.spokes[k].spoke_id # spoke_id
    ELSE 0

\* account validation shared by the spoke instructions, lib.rs:849-884
spoke_accounts(st) ==
    IF ~st.config.initialized \/ ~st.registry.initialized
    THEN "AccountNotInitialized" ELSE "Ok"

\* a registry that never reports itself full
spoke_list_never_full(len) == FALSE

\* lib.rs:469-470
spoke_list_full(len) == ~(len < MAX_SPOKES)

\* a uniqueness loop that finds nothing
spoke_id_never_taken(reg, spoke_id) == FALSE

\* the uniqueness loop of lib.rs:471-476
spoke_id_taken(reg, spoke_id) ==
    \E i \in 1..reg.spokes_len : reg.spokes[i].spoke_id = spoke_id

\* lib.rs:454-495
create_spoke(st, a) ==
    LET reg == st.registry
        len == reg.spokes_len
    IN
    IF spoke_accounts(st) # "Ok" THEN Err(spoke_accounts(st), st, 0)
    ELSE IF ~spoke_admin_ok(st.config, a.authority, a.admin)
    THEN Err("Unauthorized", st, 0)
    ELSE IF spoke_list_full(len) THEN Err("AdapterListFull", st, 0)
    ELSE IF spoke_id_taken(reg, a.spoke_id)
    THEN Err("AdapterAlreadyExists", st, 0)
    ELSE
    LET entry == [spoke_id |-> a.spoke_id,
                  adapter_program |-> a.adapter_program,
                  enabled |-> TRUE,
                  paused |-> FALSE,
                  direct_relayer_payout |-> a.direct_relayer_payout,
                  version |-> a.version,
                  metadata |-> IF a.metadata.some
                               THEN metadata_bytes(a.metadata.val)
                               ELSE metadata_bytes(<<>>),
                  created_at_slot |-> a.slot]
    IN Ok([st EXCEPT !.registry.spokes = Append(@, entry),
                     !.registry.spokes_len = @ + 1], 0)

\* lib.rs:497-537
update_spoke(st, a) ==
    LET reg == st.registry
        i == find_spoke(reg, a.spoke_id)
    IN
    IF spoke_accounts(st) # "Ok" THEN Err(spoke_accounts(st), st, 0)
    ELSE IF ~spoke_admin_ok(st.config, a.authority, a.admin)
    THEN Err("Unauthorized", st, 0)
    ELSE IF i = 0 THEN Err("AdapterNotAllowed", st, 0)
    ELSE
    LET e1 == set_opt(reg.spokes[i], "adapter_program", a.adapter_program)
        e2 == set_opt(e1, "direct_relayer_payout", a.direct_relayer_payout)
        e3 == set_opt(e2, "paused", a.paused)
        e4 == IF a.metadata.some
              THEN [e3 EXCEPT !.metadata = metadata_bytes(a.metadata.val)]
              ELSE e3
    IN Ok([st EXCEPT !.registry.spokes[i] = e4], 0)

\* a toggle that also drives the enabled flag
set_spoke_paused_and_enabled(st, a, value) ==
    LET reg == st.registry
        i == find_spoke(reg, a.spoke_id)
    IN
    IF spoke_accounts(st) # "Ok" THEN Err(spoke_accounts(st), st, 0)
    ELSE IF ~spoke_admin_ok(st.config, a.authority, a.admin)
    THEN Err("Unauthorized", st, 0)
    ELSE IF i = 0 THEN Err("AdapterNotAllowed", st, 0)
    ELSE Ok([st EXCEPT !.registry.spokes[i].paused = value,
                       !.registry.spokes[i].enabled = ~value], 0)

\* lib.rs:539-557 (paused = TRUE) and lib.rs:559-577 (paused = FALSE)
set_spoke_paused(st, a, value) ==
    LET reg == st.registry
        i == find_spoke(reg, a.spoke_id)
    IN
    IF spoke_accounts(st) # "Ok" THEN Err(spoke_accounts(st), st, 0)
    ELSE IF ~spoke_admin_ok(st.config, a.authority, a.admin)
    THEN Err("Unauthorized", st, 0)
    ELSE IF i = 0 THEN Err("AdapterNotAllowed", st, 0)
    ELSE Ok([st EXCEPT !.registry.spokes[i].paused = value], 0)

\* lib.rs:539-557
pause_spoke(st, a) == set_spoke_paused(st, a, TRUE)

\* lib.rs:559-577
enable_spoke(st, a) == set_spoke_paused(st, a, FALSE)

(***************************************************************************)
(* forward_via_spoke: lib.rs:579-752, accounts lib.rs:886-910              *)
(***************************************************************************)
\* a fee rounded up instead of down
bps_fee_ceil(amount, bps, enabled) ==
    IF enabled
    THEN ((mul_u128(amount, bps) + BPS_DENOM - 1) \div BPS_DENOM)
            % (U64_MAX + 1)
    ELSE 0

\* a fee that ignores the caller's flag
bps_fee_unflagged(amount, bps, enabled) ==
    mul_u128(amount, bps) \div BPS_DENOM

\* floor(amount * bps / 10000) in the widened domain, cast back with
\* `as u64`, lib.rs:623-632
bps_fee(amount, bps, enabled) ==
    IF enabled THEN (mul_u128(amount, bps) \div BPS_DENOM) % (U64_MAX + 1)
    ELSE 0

ForwardFeeErr(e, check) ==
    [res |-> e, check |-> check, proto_fee |-> 0, relayer_fee |-> 0,
     net_amount |-> 0]

\* the cap checks and the fee computation of lib.rs:611-638; `check` names
\* the require! that failed
forward_fees(amount, protocol_fee_bps, relayer_fee_bps, is_protocol_fee, is_relayer_fee) ==
    LET proto_fee == bps_fee(amount, protocol_fee_bps, is_protocol_fee)
        relayer_fee == bps_fee(amount, relayer_fee_bps, is_relayer_fee)
        total == checked_add(proto_fee, relayer_fee)
    IN
    IF ~(protocol_fee_bps <= FEE_CAP_BPS)
    THEN ForwardFeeErr("ProtocolFeeTooHigh", "protocol_cap")
    ELSE IF ~(relayer_fee_bps <= RELAYER_FEE_CAP_BPS)
    THEN ForwardFeeErr("RelayerFeeTooHigh", "relayer_cap")
    ELSE IF ~(amount > 0) THEN ForwardFeeErr("ZeroAmount", "amount")
    ELSE IF ~total.some THEN ForwardFeeErr("MathOverflow", "checked_add")
    ELSE IF ~(total.val <= amount)
    THEN ForwardFeeErr("FeesExceedAmount", "total_fees")
    ELSE IF ~(amount - total.val > 0)
    THEN ForwardFeeErr("ZeroAmount", "net_amount")
    ELSE [res |-> "Ok", check |-> "none", proto_fee |-> proto_fee,
          relayer_fee |-> relayer_fee, net_amount |-> amount - total.val]

\* a gate that looks at the enabled flag only
spoke_usable_ignore_paused(spoke) == spoke.enabled

\* lib.rs:609  spoke.enabled && !spoke.paused
spoke_usable(spoke) == spoke.enabled /\ ~spoke.paused

\* a caller check that admits every signer
forward_relayer_any(cfg, relayer) == TRUE

\* lib.rs:592-597
forward_relayer_ok(cfg, relayer) ==
    relayer = cfg.relayer_pubkey \/ relayer = cfg.admin

\* the checks that precede the transfers, lib.rs:592-673; "Ok" or the error
forward_checks(st, a) ==
    LET cfg == st.config
        reg == st.registry
        i == find_spoke(reg, a.spoke_id)
        fees == forward_fees(a.amount, cfg.protocol_fee_bps,
                             cfg.relayer_fee_bps, a.is_protocol_fee,
                             a.is_relayer_fee)
        v == validate_vault_pda_or_authority(a.hub_protocol_vault, a.mint)
        expected_relayer_vault == hub_relayer_vault_pda(a.mint)
    IN
    IF spoke_accounts(st) # "Ok" THEN spoke_accounts(st)
    ELSE IF ~(a.hub_protocol_vault \in TokenAccountKeys)
    THEN "AccountNotInitialized"
    ELSE IF ~forward_relayer_ok(cfg, a.relayer) THEN "Unauthorized"
    ELSE IF i = 0 THEN "AdapterNotAllowed"
    ELSE IF ~spoke_usable(reg.spokes[i]) THEN "AdapterNotAllowed"
    ELSE IF fees.res # "Ok" THEN fees.res
    ELSE IF ~(a.from \in TokenAccountKeys) THEN "InvalidTokenProgram"
    ELSE IF ~(TokenAccounts[a.from].owner = a.user) THEN "Unauthorized"
    ELSE IF ~(TokenAccounts[a.from].mint = a.mint) THEN "InvalidTokenProgram"
    ELSE IF v.res # "Ok" THEN v.res
    ELSE IF ~(a.hub_relayer_vault \in TokenAccountKeys)
    THEN "InvalidTokenProgram"
    ELSE IF ~(TokenAccounts[a.hub_relayer_vault].program_owner = TOKEN_ID)
    THEN "InvalidTokenProgram"
    ELSE IF ~(TokenAccounts[a.hub_relayer_vault].owner
                 = expected_relayer_vault)
    THEN "InvalidVaultOwner"
    ELSE "Ok"

\* the transfers and the event, lib.rs:674-751
forward_move(st, a) ==
    LET cfg == st.config
        spoke == st.registry.spokes[find_spoke(st.registry, a.spoke_id)]
        proto_fee == bps_fee(a.amount, cfg.protocol_fee_bps, a.is_protocol_fee)
        relayer_fee == bps_fee(a.amount, cfg.relayer_fee_bps, a.is_relayer_fee)
        net_amount == a.amount - (proto_fee + relayer_fee)
        direct == spoke.direct_relayer_payout
                    \/ cfg.direct_relayer_payout_default
        t1 == IF proto_fee > 0
              THEN token_transfer(st, a.from, a.hub_protocol_vault, a.user,
                                  TRUE, proto_fee)
              ELSE [ok |-> TRUE, st |-> st]
        n1 == IF proto_fee > 0 THEN 1 ELSE 0
    IN
    IF ~t1.ok THEN Err("TokenTransferFailed", st, 0)
    ELSE IF relayer_fee > 0 /\ direct
            /\ ~(a.relayer_token_account \in TokenAccountKeys)
    THEN Err("Unauthorized", t1.st, n1)
    ELSE IF relayer_fee > 0 /\ direct
            /\ ~(TokenAccounts[a.relayer_token_account].owner
                    = cfg.relayer_pubkey)
    THEN Err("Unauthorized", t1.st, n1)
    ELSE
    LET t2 == IF relayer_fee > 0
              THEN token_transfer(t1.st, a.from,
                                  IF direct THEN a.relayer_token_account
                                  ELSE a.hub_relayer_vault,
                                  a.user, TRUE, relayer_fee)
              ELSE [ok |-> TRUE, st |-> t1.st]
        n2 == IF relayer_fee > 0 THEN n1 + 1 ELSE n1
    IN
    IF ~t2.ok THEN Err("TokenTransferFailed", t1.st, n1)
    ELSE
    LET t3 == IF net_amount > 0
              THEN token_transfer(t2.st, a.from,
                                  a.adapter_target_token_account, a.user,
                                  TRUE, net_amount)
              ELSE [ok |-> TRUE, st |-> t2.st]
        n3 == IF net_amount > 0 THEN n2 + 1 ELSE n2
    IN
    IF ~t3.ok THEN Err("TokenTransferFailed", t2.st, n2)
    ELSE Ok(Emit(t3.st,
                 [type |-> "Forwarded", user |-> a.user,
                  relayer |-> a.relayer, spoke_id |-> a.spoke_id,
                  adapter_program |-> spoke.adapter_program,
                  amount |-> a.amount, protocol_fee |-> proto_fee,
                  relayer_fee |-> relayer_fee, net_amount |-> net_amount,
                  dst_domain |-> a.dst_domain]), n3)

forward_via_spoke(st, a) ==
    IF forward_checks(st, a) # "Ok" THEN Err(forward_checks(st, a), st, 0)
    ELSE forward_move(st, a)

(***************************************************************************)
(* Adapter CPI entrypoints: lib.rs:393-451.  The adapter is an external    *)
(* program; it cannot write accounts the router owns.                      *)
(***************************************************************************)
\* the adapter programs that keep a replay record: zpx_adapter, the two
\* CCTP adapters and the adapter of adapter_positive.rs
GuardedAdapters == {"zpx_adapter", "cctp_v1", "cctp_v2", "mock_adapter"}

\* the message accounts adapters are called with
AdapterMessages == {"m1", "m2"}

\* zpx_adapter/src/lib.rs:86, adapter_positive.rs:381: the replay record of
\* an adapter for a message, owned by that adapter
adapter_replay_pda(program, message) == <<program, message>>

ReplayAccountKeys ==
    {adapter_replay_pda(p, m) : p \in GuardedAdapters, m \in AdapterMessages}

\* the program that owns a replay record
replay_owner(key) == key[1]

\* a process_transfer without the replay check
process_transfer_unguarded(processed, payload) ==
    IF Len(payload) = 0 THEN [res |-> "InvalidPayload", processed |-> processed]
    ELSE IF payload[1] \notin {0, 1}
    THEN [res |-> "InvalidPayload", processed |-> processed]
    ELSE [res |-> "Ok", processed |-> 1]

\* zpx_adapter/src/lib.rs:18-46
process_transfer(processed, payload) ==
    IF processed # 0 THEN [res |-> "ReplayProcessed", processed |-> processed]
    ELSE IF Len(payload) = 0
    THEN [res |-> "InvalidPayload", processed |-> processed]
    ELSE IF payload[1] \notin {0, 1}
    THEN [res |-> "InvalidPayload", processed |-> processed]
    ELSE [res |-> "Ok", processed |-> 1]

\* zpx_adapter_cctp_v1/src/lib.rs:12-33
cctp_v1_process_transfer(processed, payload) ==
    IF processed # 0 THEN [res |-> "ReplayProcessed", processed |-> processed]
    ELSE IF Len(payload) = 0 \/ payload[1] # 0
    THEN [res |-> "InvalidPayload", processed |-> processed]
    ELSE [res |-> "Ok", processed |-> 1]

\* a v2 process_transfer that parses the payload before the replay check
cctp_v2_payload_first(processed, payload) ==
    IF Len(payload) < 2 \/ payload[1] # 0 \/ payload[2] # 1
    THEN [res |-> "InvalidPayload", processed |-> processed]
    ELSE IF processed # 0
    THEN [res |-> "ReplayProcessed", processed |-> processed]
    ELSE [res |-> "Ok", processed |-> 1]

\* zpx_adapter_cctp_v2/src/lib.rs:12-33
cctp_v2_process_transfer(processed, payload) ==
    IF processed # 0 THEN [res |-> "ReplayProcessed", processed |-> processed]
    ELSE IF Len(payload) < 2 \/ payload[1] # 0 \/ payload[2] # 1
    THEN [res |-> "InvalidPayload", processed |-> processed]
    ELSE [res |-> "Ok", processed |-> 1]

\* a process_transfer instruction sent to an adapter by a client, with the
\* accounts of ProcessTransfer (zpx_adapter/src/lib.rs:81-92): the replay
\* account must be the PDA of the message
adapter_process_transfer(st, program, message, replay_account, payload) ==
    IF replay_account # adapter_replay_pda(program, message)
    THEN Err("ConstraintSeeds", st, 0)
    ELSE
    LET processed == st.adapter_replay[replay_account]
        r == CASE program = "zpx_adapter" ->
                      process_transfer(processed, payload)
               [] program = "cctp_v1" ->
                      cctp_v1_process_transfer(processed, payload)
               [] program = "cctp_v2" ->
                      cctp_v2_process_transfer(processed, payload)
        st2 == [st EXCEPT !.adapter_replay[replay_account] = r.processed]
    IN IF r.res = "Ok" THEN Ok(st2, 0) ELSE Err(r.res, st2, 0)

\* adapter_positive.rs:18-78: with a message and a replay account the
\* adapter fails on a set flag, sets the flag, and only then looks at the
\* data; without accounts it looks at the data only
mock_adapter_process(st, accounts, data) ==
    LET data_res == IF Len(data) > 0 /\ data[1] = 0 THEN "Ok" ELSE "Custom1"
    IN
    IF Len(accounts) >= 2
    THEN IF st.adapter_replay[accounts[2]] # 0
         THEN [res |-> "Custom2", st |-> st]
         ELSE [res |-> data_res,
               st |-> [st EXCEPT !.adapter_replay[accounts[2]] = 1]]
    ELSE [res |-> data_res, st |-> st]

\* solana_program::program::invoke of an adapter with the given accounts
\* and data: the result of the callee and the working state it leaves.
\* mock_cpi/src/lib.rs:10-12 always fails; the Anchor adapters reject a call
\* that lacks the payer and system program accounts of ProcessTransfer; the
\* other programs behave as mock_adapter_cpi.rs:15-27.  The runtime fails a
\* callee that wrote an account it does not own.
adapter_invoke(st, program, accounts, data) ==
    IF program = "mock_cpi" THEN [res |-> "AlwaysFail", st |-> st]
    ELSE IF program = "mock_adapter"
    THEN LET r == mock_adapter_process(st, accounts, data) IN
         IF r.res = "Ok" /\ r.st # st /\ replay_owner(accounts[2]) # program
         THEN [res |-> "ExternalAccountDataModified", st |-> r.st]
         ELSE r
    ELSE IF program \in GuardedAdapters
    THEN [res |-> "AccountNotEnoughKeys", st |-> st]
    ELSE IF Len(data) > 0 /\ data[1] = 0 THEN [res |-> "Ok", st |-> st]
    ELSE [res |-> "Custom1", st |-> st]

\* lib.rs:395-411: invoke with data [0] and no accounts; any failure maps
\* to Unauthorized
bridge_with_adapter_cpi(st, adapter_program) ==
    LET r == adapter_invoke(st, adapter_program, <<>>, <<0>>) IN
    IF r.res # "Ok" THEN Err("Unauthorized", r.st, 0)
    ELSE Ok(r.st, 0)

\* lib.rs:417-451: invoke with the message and replay accounts and the
\* caller's instruction data
adapter_passthrough(st, adapter_program, message_account, replay_account, instruction_data) ==
    LET r == adapter_invoke(st, adapter_program,
                            <<message_account, replay_account>>,
                            instruction_data)
    IN
    IF r.res # "Ok" THEN Err("Unauthorized", r.st, 0)
    ELSE Ok(r.st, 0)

(***************************************************************************)
(* Canonical hash (hash.rs) and the finalize entrypoint.  The router       *)
(* source under lib.rs declares the Replay account and the replay error    *)
(* codes (lib.rs:951-954, 1125-1135) but not the finalize_message_v1       *)
(* handler its tests call; the handler below follows the design document,  *)
(* section 4.6.                                                            *)
(***************************************************************************)
\* hash.rs:19-39: keccak256 over the packed fields.  The hash is modelled
\* as collision free: the digest is identified with the packed buffer.
message_hash_be(src_chain, src_adapter, recipient, asset, amount, p_hash, nonce, dst_chain) ==
    <<src_chain, src_adapter, recipient, asset, amount, p_hash, nonce,
      dst_chain>>

\* hash.rs:42-56: keccak256 over the packed fields, collision free as above
global_route_id(src_chain, dst_chain, initiator, message_hash, nonce) ==
    <<src_chain, dst_chain, initiator, message_hash, nonce>>

\* find_program_address(["replay", message_hash])
replay_pda(message_hash) == <<"replay", message_hash>>

\* the messages finalize is called with
Messages ==
    [src_chain_id : {1, U16_MAX + 1}, dst_chain_id : {2},
     src_adapter : AdapterIds, asset_mint : {USDC},
     forwarded_amount : {1000}, payload_hash : {"payload"}, nonce : {1}]

\* finalize_replay.rs:35-46: the hash the caller computes for a message
hash_of(m) ==
    message_hash_be(m.src_chain_id, m.src_adapter, ZERO_HASH, m.asset_mint,
                    m.forwarded_amount, m.payload_hash, m.nonce,
                    m.dst_chain_id)

MessageHashes == {hash_of(m) : m \in Messages}

\* a replay record that was never created (state Absent)
AbsentReplay == [initialized |-> FALSE, processed |-> 0]

\* the replay-guard transition without the processed check
replay_guard_unchecked(rec) ==
    [res |-> "Ok", rec |-> [initialized |-> TRUE, processed |-> 1]]

\* design 4.6: create the record with processed = 1 on first use; on a later
\* use fail if processed = 1, else set it
replay_guard(rec) ==
    IF ~rec.initialized
    THEN [res |-> "Ok", rec |-> [initialized |-> TRUE, processed |-> 1]]
    ELSE IF rec.processed = 1
    THEN [res |-> "ReplayAlreadyProcessed", rec |-> rec]
    ELSE [res |-> "Ok", rec |-> [rec EXCEPT !.processed = 1]]

\* chain ids fit the u16 wire width
finalize_chain_ok(a) ==
    a.msg.src_chain_id <= U16_MAX /\ a.msg.dst_chain_id <= U16_MAX

\* a hash comparison that accepts every declared hash
finalize_hash_unchecked(a) == TRUE

\* the recomputed hash equals the declared one
finalize_hash_ok(a) == hash_of(a.msg) = a.message_hash

\* the validations of finalize without the allowlist gate
finalize_checks_no_allowlist(st, a) ==
    IF ~st.config.initialized THEN "AccountNotInitialized"
    ELSE IF ~finalize_chain_ok(a) THEN "ChainIdOutOfRange"
    ELSE IF ~finalize_hash_ok(a) THEN "HashMismatch"
    ELSE IF ~(a.replay = replay_pda(a.message_hash)) THEN "InvalidReplayPda"
    ELSE "Ok"

\* the validations of finalize that precede the replay guard; "Ok" or the
\* error
finalize_checks(st, a) ==
    IF ~st.config.initialized THEN "AccountNotInitialized"
    ELSE IF ~finalize_chain_ok(a) THEN "ChainIdOutOfRange"
    ELSE IF ~finalize_hash_ok(a) THEN "HashMismatch"
    ELSE IF ~is_allowed_adapter_cfg(st.config, a.msg.src_adapter)
    THEN "AdapterNotAllowed"
    ELSE IF ~(a.replay = replay_pda(a.message_hash)) THEN "InvalidReplayPda"
    ELSE "Ok"

\* a write that lands in every replay record
replay_write_all(recs, message_hash, rec) == [h \in DOMAIN recs |-> rec]

\* the record of a message hash is its own account, at the address derived
\* from the hash: a write reaches that record only
replay_write(recs, message_hash, rec) == [recs EXCEPT ![message_hash] = rec]

finalize_message_v1(st, a) ==
    IF finalize_checks(st, a) # "Ok" THEN Err(finalize_checks(st, a), st, 0)
    ELSE
    LET g == replay_guard(st.replay[a.message_hash]) IN
    IF g.res # "Ok" THEN Err(g.res, st, 0)
    ELSE Ok(Emit([st EXCEPT !.replay = replay_write(@, a.message_hash, g.rec),
                            !.telemetry[a.message_hash] = @ + 1],
                 [type |-> "FeeAppliedDest",
                  message_hash |-> a.message_hash,
                  src_chain_id |-> as_u16(a.msg.src_chain_id),
                  dst_chain_id |-> as_u16(a.msg.dst_chain_id),
                  asset |-> a.msg.asset_mint,
                  amount |-> a.msg.forwarded_amount]), 0)

(***************************************************************************)
(* The state machine: one transaction with one instruction per step.       *)
(***************************************************************************)
NoCall == [op |-> "none"]

Init ==
    /\ config = DefaultConfig
    /\ registry = DefaultRegistry
    /\ replay = [h \in MessageHashes |-> AbsentReplay]
    /\ telemetry = [h \in MessageHashes |-> 0]
    /\ adapter_replay = [k \in ReplayAccountKeys |-> 0]
    /\ balances = [k \in TokenAccountKeys |->
                      IF k = "user_ata" THEN InitialUserBalance ELSE 0]
    /\ events = <<>>
    /\ last = NoCall
    /\ rejected = {}
    /\ paused_once = {}

\* the state a transaction starts in
CurState ==
    [config |-> config, registry |-> registry, replay |-> replay,
     telemetry |-> telemetry, balances |-> balances,
     adapter_replay |-> adapter_replay, events |-> <<>>]

\* run one instruction: commit its outcome and record the call
Run(call, out) ==
    LET fin == runtime_commit(CurState, out.st, out.res) IN
    /\ config' = fin.config
    /\ registry' = fin.registry
    /\ replay' = fin.replay
    /\ telemetry' = fin.telemetry
    /\ balances' = fin.balances
    /\ adapter_replay' = fin.adapter_replay
    /\ events' = IF out.res = "Ok" THEN fin.events ELSE <<>>
    /\ last' = call @@ [res |-> out.res, moved |-> out.moved]
    /\ rejected' =
           IF call.op = "finalize_message_v1" /\ out.res = "AdapterNotAllowed"
           THEN rejected \cup {call.message_hash}
           ELSE rejected
    /\ paused_once' =
           IF call.op = "pause_spoke" /\ out.res = "Ok"
           THEN paused_once \cup {call.spoke_id}
           ELSE paused_once

\* the signers that call the admin instructions
AdminCallers == {"admin", "mallory"}

\* the initialize_config calls: a valid one and one variation per check
InitBase ==
    [admin |-> "admin", fee_recipient |-> TOKEN_ID, src_chain_id |-> 1,
     relayer_fee_bps |-> RELAYER_FEE_CAP_BPS,
     protocol_fee_bps |-> FEE_CAP_BPS, relayer_pubkey |-> "relayer",
     accept_any_token |-> FALSE, allowed_token_mint |-> USDC,
     direct_relayer_payout_default |-> FALSE, min_forward_amount |-> 0]

InitCalls ==
    {InitBase,
     [InitBase EXCEPT !.relayer_fee_bps = 0],
     [InitBase EXCEPT !.relayer_fee_bps = RELAYER_FEE_CAP_BPS + 1],
     [InitBase EXCEPT !.protocol_fee_bps = FEE_CAP_BPS + 1]}

InitializeConfig ==
    \E a \in InitCalls :
        Run([op |-> "initialize_config", authority |-> "admin",
             relayer_fee_bps |-> a.relayer_fee_bps,
             protocol_fee_bps |-> a.protocol_fee_bps],
            initialize_config(CurState, a))

NoPatch ==
    [fee_recipient |-> NoneKey, src_chain_id |-> NoneInt,
     relayer_fee_bps |-> NoneInt, protocol_fee_bps |-> NoneInt,
     relayer_pubkey |-> NoneKey, accept_any_token |-> NoneBool,
     allowed_token_mint |-> NoneKey,
     direct_relayer_payout_default |-> NoneBool,
     min_forward_amount |-> NoneInt, paused |-> NoneBool]

UpdatePatches ==
    {[NoPatch EXCEPT !.paused = Some(TRUE)],
     [NoPatch EXCEPT !.relayer_fee_bps = Some(100),
                     !.fee_recipient = Some("treasury")],
     [NoPatch EXCEPT !.fee_recipient = Some("mallory"),
                     !.relayer_fee_bps = Some(RELAYER_FEE_CAP_BPS + 1)],
     [NoPatch EXCEPT !.protocol_fee_bps = Some(FEE_CAP_BPS + 1)]}

UpdateConfig ==
    \E authority \in AdminCallers, p \in UpdatePatches :
        Run([op |-> "update_config", authority |-> authority, patch |-> p],
            update_config(CurState, authority, p))

InitializeRegistry ==
    Run([op |-> "initialize_registry", authority |-> "admin"],
        initialize_registry(CurState))

AddAdapter ==
    \E authority \in AdminCallers, adapter \in AdapterIds :
        Run([op |-> "add_adapter", authority |-> authority,
             adapter |-> adapter],
            add_adapter(CurState, authority, adapter))

RemoveAdapter ==
    \E authority \in AdminCallers, adapter \in AdapterIds :
        Run([op |-> "remove_adapter", authority |-> authority,
             adapter |-> adapter],
            remove_adapter(CurState, authority, adapter))

WithdrawBase ==
    [authority |-> "admin",
     hub_protocol_vault |-> "pda_hub_protocol_vault_usdc",
     hub_protocol_pda |-> "pda_hub_protocol_vault_usdc", mint |-> USDC,
     destination |-> "ata_treasury_usdc", amount |-> 5]

WithdrawCalls ==
    {WithdrawBase,
     [WithdrawBase EXCEPT !.authority = "mallory"],
     [WithdrawBase EXCEPT !.authority = "mallory",
                          !.destination = "mallory_ata"],
     [WithdrawBase EXCEPT !.hub_protocol_vault = "mallory_ata"],
     [WithdrawBase EXCEPT !.amount = 10]}

AdminWithdraw ==
    \E a \in WithdrawCalls :
        Run([op |-> "admin_withdraw", authority |-> a.authority],
            admin_withdraw(CurState, a))

\* router_schema.rs:236-256 fee_cap_boundaries: fees at and one above the
\* caps, for an amount of 10000
TransferBase ==
    [user |-> "user", mint |-> USDC, from |-> "user_ata",
     fee_recipient_ata |-> "ata_tokenprogram_usdc",
     target_token_account |-> "adapter_target_ata",
     target_adapter_program |-> "adapterA", amount |-> 10000,
     protocol_fee |-> 5, relayer_fee |-> 1000,
     payload_len |-> MAX_PAYLOAD_LEN, dst_chain_id |-> 2, nonce |-> 1]

TransferCalls ==
    {TransferBase,
     [TransferBase EXCEPT !.amount = 0],
     [TransferBase EXCEPT !.protocol_fee = 6],
     [TransferBase EXCEPT !.relayer_fee = 1001],
     [TransferBase EXCEPT !.relayer_fee = 9995],
     [TransferBase EXCEPT !.protocol_fee = 0, !.relayer_fee = 10000],
     [TransferBase EXCEPT !.fee_recipient_ata = "ata_treasury_usdc"],
     [TransferBase EXCEPT !.payload_len = MAX_PAYLOAD_LEN + 1],
     [TransferBase EXCEPT !.target_adapter_program = "adapterB"]}

UniversalBridgeTransfer ==
    \E a \in TransferCalls :
        Run([op |-> "universal_bridge_transfer", authority |-> "user",
             amount |-> a.amount, protocol_fee |-> a.protocol_fee,
             relayer_fee |-> a.relayer_fee, mint |-> a.mint,
             target |-> a.target_adapter_program,
             payload_len |-> a.payload_len,
             accounts |-> ubt_accounts(CurState, a)],
            universal_bridge_transfer(CurState, a))

\* the signer and the account passed as `admin` in the spoke instructions
SpokeCallArgs ==
    {[authority |-> "admin", admin |-> "admin", spoke_id |-> 1],
     [authority |-> "admin", admin |-> "admin", spoke_id |-> 2],
     [authority |-> "mallory", admin |-> "mallory", spoke_id |-> 1],
     [authority |-> "mallory", admin |-> "admin", spoke_id |-> 1]}

CreateSpoke ==
    \E c \in {x \in SpokeCallArgs : x.spoke_id = 1}, direct \in BOOLEAN :
        LET a == [authority |-> c.authority, admin |-> c.admin,
                  spoke_id |-> c.spoke_id, adapter_program |-> "adapterA",
                  direct_relayer_payout |-> direct, version |-> 1,
                  metadata |-> NoneMeta, slot |-> 100]
        IN Run([op |-> "create_spoke", authority |-> c.authority,
                admin |-> c.admin, spoke_id |-> c.spoke_id],
               create_spoke(CurState, a))

UpdateSpoke ==
    \E c \in SpokeCallArgs, paused \in {Some(TRUE), Some(FALSE)} :
        LET a == [authority |-> c.authority, admin |-> c.admin,
                  spoke_id |-> c.spoke_id, adapter_program |-> NoneKey,
                  direct_relayer_payout |-> NoneBool,
                  paused |-> paused, metadata |-> NoneMeta]
        IN Run([op |-> "update_spoke", authority |-> c.authority,
                admin |-> c.admin, spoke_id |-> c.spoke_id],
               update_spoke(CurState, a))

PauseSpoke ==
    \E c \in SpokeCallArgs :
        Run([op |-> "pause_spoke", authority |-> c.authority,
             admin |-> c.admin, spoke_id |-> c.spoke_id],
            pause_spoke(CurState, c))

EnableSpoke ==
    \E c \in SpokeCallArgs :
        Run([op |-> "enable_spoke", authority |-> c.authority,
             admin |-> c.admin, spoke_id |-> c.spoke_id],
            enable_spoke(CurState, c))

ForwardBase ==
    [user |-> "user", relayer |-> "relayer", mint |-> USDC,
     from |-> "user_ata",
     hub_protocol_vault |-> "pda_hub_protocol_vault_usdc",
     hub_relayer_vault |-> "pda_hub_relayer_vault_usdc",
     relayer_token_account |-> "relayer_ata",
     adapter_target_token_account |-> "adapter_target_ata",
     spoke_id |-> 1, amount |-> 10000, dst_domain |-> 2,
     is_protocol_fee |-> TRUE, is_relayer_fee |-> TRUE]

ForwardCalls ==
    {ForwardBase,
     [ForwardBase EXCEPT !.relayer = "mallory"],
     [ForwardBase EXCEPT !.spoke_id = 2],
     [ForwardBase EXCEPT !.amount = 0],
     [ForwardBase EXCEPT !.is_protocol_fee = FALSE,
                         !.is_relayer_fee = FALSE],
     [ForwardBase EXCEPT !.hub_protocol_vault = "mallory_ata"]}

ForwardViaSpoke ==
    \E a \in ForwardCalls :
        Run([op |-> "forward_via_spoke", authority |-> a.relayer,
             amount |-> a.amount, spoke_id |-> a.spoke_id],
            forward_via_spoke(CurState, a))

\* the programs a CPI entrypoint is pointed at
CpiTargets == {"adapterA", "mock_cpi"}

BridgeWithAdapterCpi ==
    \E adapter \in CpiTargets :
        Run([op |-> "bridge_with_adapter_cpi", authority |-> "relayer",
             adapter |-> adapter],
            bridge_with_adapter_cpi(CurState, adapter))

AdapterPassthrough ==
    \E adapter \in CpiTargets, data \in {<<0>>, <<1, 2>>, <<>>} :
        Run([op |-> "adapter_passthrough", authority |-> "relayer",
             adapter |-> adapter],
            adapter_passthrough(CurState, adapter, "m1",
                                adapter_replay_pda("mock_adapter", "m1"),
                                data))

Finalize ==
    \E m \in Messages, declared \in Messages, handle \in Messages :
        LET a == [relayer |-> "relayer", msg |-> m,
                  message_hash |-> hash_of(declared),
                  replay |-> replay_pda(hash_of(handle))]
        IN Run([op |-> "finalize_message_v1", authority |-> "relayer",
                message_hash |-> a.message_hash,
                src_adapter |-> m.src_adapter,
                chain_ok |-> finalize_chain_ok(a),
                hash_ok |-> (hash_of(m) = hash_of(declared)),
                validated |-> finalize_checks(CurState, a)],
               finalize_message_v1(CurState, a))

\* the instructions of the router program (lib.rs:23-755)
Next ==
    \/ InitializeConfig
    \/ UpdateConfig
    \/ InitializeRegistry
    \/ AdminWithdraw
    \/ AddAdapter
    \/ RemoveAdapter
    \/ UniversalBridgeTransfer
    \/ CreateSpoke
    \/ UpdateSpoke
    \/ PauseSpoke
    \/ EnableSpoke
    \/ ForwardViaSpoke
    \/ BridgeWithAdapterCpi
    \/ AdapterPassthrough

Spec == Init /\ [][Next]_vars

\* the destination leg: the allowlist administration and finalize
NextFinalize ==
    \/ InitializeConfig
    \/ AddAdapter
    \/ RemoveAdapter
    \/ Finalize

SpecFinalize == Init /\ [][NextFinalize]_vars

\* initialize_config with each identity as the admin argument
InitializeAdmin ==
    \E admin \in AdminCallers :
        LET a == [InitBase EXCEPT !.admin = admin] IN
        Run([op |-> "initialize_config", authority |-> "admin",
             admin |-> admin, relayer_fee_bps |-> a.relayer_fee_bps,
             protocol_fee_bps |-> a.protocol_fee_bps],
            initialize_config(CurState, a))

\* the instructions that take the Config account for writing or check the
\* admin
NextAdmin ==
    \/ InitializeAdmin
    \/ UpdateConfig
    \/ AddAdapter
    \/ RemoveAdapter
    \/ AdminWithdraw

SpecAdmin == Init /\ [][NextAdmin]_vars

(***************************************************************************)
(* Fee routing of forward_via_spoke: one forward from a hub set up by      *)
(* initialize_config, initialize_registry and create_spoke.                *)
(***************************************************************************)
\* the state before the first transaction
State0 ==
    [config |-> DefaultConfig, registry |-> DefaultRegistry,
     replay |-> [h \in MessageHashes |-> AbsentReplay],
     telemetry |-> [h \in MessageHashes |-> 0],
     balances |-> [k \in TokenAccountKeys |->
                      IF k = "user_ata" THEN InitialUserBalance ELSE 0],
     adapter_replay |-> [k \in ReplayAccountKeys |-> 0],
     events |-> <<>>]

\* fee settings of the hub, incl. those of forward_event_shape.rs:165-166
ForwardProtocolBps == {0, 1, FEE_CAP_BPS}

ForwardRelayerBps == {0, 1, 100, RELAYER_FEE_CAP_BPS}

ForwardAmounts == {1, 3, 1999, 2000, 10000, InitialUserBalance}

\* the hub after initialize_config(p_bps, r_bps), initialize_registry and
\* create_spoke(1, direct)
hub_setup(p_bps, r_bps, direct) ==
    LET s1 == initialize_config(State0,
                  [InitBase EXCEPT !.protocol_fee_bps = p_bps,
                                   !.relayer_fee_bps = r_bps]).st
        s2 == initialize_registry(s1).st
    IN create_spoke(s2, [authority |-> "admin", admin |-> "admin",
                         spoke_id |-> 1, adapter_program |-> "adapterA",
                         direct_relayer_payout |-> direct, version |-> 1,
                         metadata |-> NoneMeta, slot |-> 100]).st

InitForward ==
    \E p_bps \in ForwardProtocolBps, r_bps \in ForwardRelayerBps,
       direct \in BOOLEAN :
        LET s == hub_setup(p_bps, r_bps, direct) IN
        /\ config = s.config
        /\ registry = s.registry
        /\ replay = s.replay
        /\ telemetry = s.telemetry
        /\ adapter_replay = s.adapter_replay
        /\ balances = s.balances
        /\ events = <<>>
        /\ last = NoCall
        /\ rejected = {}
        /\ paused_once = {}

ForwardOnce ==
    /\ last = NoCall
    /\ \E amount \in ForwardAmounts, is_protocol_fee \in BOOLEAN,
          is_relayer_fee \in BOOLEAN :
        LET a == [ForwardBase EXCEPT !.amount = amount,
                                     !.is_protocol_fee = is_protocol_fee,
                                     !.is_relayer_fee = is_relayer_fee]
        IN Run([op |-> "forward_via_spoke", authority |-> a.relayer,
                amount |-> a.amount, spoke_id |-> a.spoke_id,
                is_protocol_fee |-> is_protocol_fee,
                is_relayer_fee |-> is_relayer_fee],
               forward_via_spoke(CurState, a))

NextForward == ForwardOnce

SpecForward == InitForward /\ [][NextForward]_vars

\* hub settings for the fee computation on its own: within the caps and
\* one above each
ForwardFeeProtocolBps == {0, 1, FEE_CAP_BPS, FEE_CAP_BPS + 1}

ForwardFeeRelayerBps == {0, 1, 100, RELAYER_FEE_CAP_BPS, RELAYER_FEE_CAP_BPS + 1}

\* amounts at the edges of u64 and around the points where a fee turns 1
ForwardFeeAmounts ==
    {0, 1, 2, 9, 10, 11, 1999, 2000, 2001, 10000, U64_MAX - 1, U64_MAX}

\* the fee computation of forward_via_spoke on one input tuple
ForwardFees ==
    /\ last = NoCall
    /\ \E amount \in ForwardFeeAmounts,
          protocol_fee_bps \in ForwardFeeProtocolBps,
          relayer_fee_bps \in ForwardFeeRelayerBps,
          is_protocol_fee \in BOOLEAN, is_relayer_fee \in BOOLEAN :
        /\ UNCHANGED <<StateVars, events, rejected, paused_once>>
        /\ last' = [op |-> "forward_fees", amount |-> amount,
                    protocol_fee_bps |-> protocol_fee_bps,
                    relayer_fee_bps |-> relayer_fee_bps,
                    is_protocol_fee |-> is_protocol_fee,
                    is_relayer_fee |-> is_relayer_fee,
                    out |-> forward_fees(amount, protocol_fee_bps,
                                         relayer_fee_bps, is_protocol_fee,
                                         is_relayer_fee)]

NextForwardFees == ForwardFees \/ ForwardOnce

SpecForwardFees == InitForward /\ [][NextForwardFees]_vars

(***************************************************************************)
(* The adapter allowlist on its own: add_adapter and remove_adapter over   *)
(* more adapters than the list holds.                                      *)
(***************************************************************************)
AdapterSeq ==
    <<"adapter1", "adapter2", "adapter3", "adapter4", "adapter5",
      "adapter6", "adapter7", "adapter8", "adapter9">>

AdapterPool == {AdapterSeq[i] : i \in 1..Len(AdapterSeq)}

\* number of allowlist calls made after the setup
MaxAdapterOps == 3

RECURSIVE allowlist_setup(_)
\* the hub after initialize_config and add_adapter of the first k adapters
allowlist_setup(k) ==
    IF k = 0 THEN initialize_config(State0, InitBase).st
    ELSE add_adapter(allowlist_setup(k - 1), "admin", AdapterSeq[k]).st

InitAdapters ==
    \E k \in 0..MAX_ADAPTERS :
        LET s == allowlist_setup(k) IN
        /\ config = s.config
        /\ registry = s.registry
        /\ replay = s.replay
        /\ telemetry = s.telemetry
        /\ adapter_replay = s.adapter_replay
        /\ balances = s.balances
        /\ events = <<>>
        /\ last = NoCall
        /\ rejected = {}
        /\ paused_once = {}

\* calls made so far
OpsDone == IF last = NoCall THEN 0 ELSE last.n

AddAdapterPool ==
    /\ OpsDone < MaxAdapterOps
    /\ \E adapter \in AdapterPool :
        Run([op |-> "add_adapter", authority |-> "admin",
             adapter |-> adapter, n |-> OpsDone + 1],
            add_adapter(CurState, "admin", adapter))

RemoveAdapterPool ==
    /\ OpsDone < MaxAdapterOps
    /\ \E adapter \in AdapterPool :
        Run([op |-> "remove_adapter", authority |-> "admin",
             adapter |-> adapter, n |-> OpsDone + 1],
            remove_adapter(CurState, "admin", adapter))

NextAdapters == AddAdapterPool \/ RemoveAdapterPool

SpecAdapters == InitAdapters /\ [][NextAdapters]_vars

(***************************************************************************)
(* universal_bridge_transfer of two mints: one transfer from a hub set up  *)
(* by initialize_config and add_adapter.                                   *)
(***************************************************************************)
Mints == {USDC, OTHER_MINT}

\* the accounts a client passes for a transfer of the mint
transfer_of_mint(mint) ==
    IF mint = USDC THEN TransferBase
    ELSE [TransferBase EXCEPT !.mint = OTHER_MINT,
                              !.from = "user_ata_other",
                              !.fee_recipient_ata = "ata_tokenprogram_other",
                              !.target_token_account =
                                  "adapter_target_ata_other"]

MintAmounts == {0, 1, 2000, 10000, InitialUserBalance}

\* (protocol_fee, relayer_fee) of the transfer
MintFees == {<<0, 0>>, <<5, 0>>, <<5, 1000>>}

\* the hub after initialize_config(accept_any_token, allowed_token_mint)
\* and add_adapter(adapterA)
mint_setup(accept_any_token, allowed_token_mint) ==
    add_adapter(
        initialize_config(State0,
            [InitBase EXCEPT !.accept_any_token = accept_any_token,
                             !.allowed_token_mint = allowed_token_mint]).st,
        "admin", "adapterA").st

InitMint ==
    \E accept_any_token \in BOOLEAN, allowed_token_mint \in Mints :
        LET s == mint_setup(accept_any_token, allowed_token_mint) IN
        /\ config = s.config
        /\ registry = s.registry
        /\ replay = s.replay
        /\ telemetry = s.telemetry
        /\ adapter_replay = s.adapter_replay
        /\ balances = [s.balances EXCEPT
                          !["user_ata_other"] = InitialUserBalance]
        /\ events = <<>>
        /\ last = NoCall
        /\ rejected = {}
        /\ paused_once = {}

TransferOnce ==
    /\ last = NoCall
    /\ \E mint \in Mints, amount \in MintAmounts, fees \in MintFees :
        LET a == [transfer_of_mint(mint) EXCEPT !.amount = amount,
                                                !.protocol_fee = fees[1],
                                                !.relayer_fee = fees[2]]
        IN Run([op |-> "universal_bridge_transfer", authority |-> "user",
                amount |-> a.amount, protocol_fee |-> a.protocol_fee,
                relayer_fee |-> a.relayer_fee, mint |-> a.mint,
                target |-> a.target_adapter_program,
                payload_len |-> a.payload_len,
                accounts |-> ubt_accounts(CurState, a)],
               universal_bridge_transfer(CurState, a))

NextMint == TransferOnce

SpecMint == InitMint /\ [][NextMint]_vars

(***************************************************************************)
(* The canonical hasher at byte level, hash.rs.  Called on its own: the    *)
(* router's handlers do not use it.                                        *)
(***************************************************************************)
RECURSIVE byte_at(_, _)
\* byte k of x, byte 0 being the least significant
byte_at(x, k) == IF k = 0 THEN x % 256 ELSE byte_at(x \div 256, k - 1)

\* u64::to_le_bytes: least significant byte first
to_le_bytes(x) == [i \in 1..8 |-> byte_at(x, i - 1)]

\* u64::to_be_bytes: most significant byte first
to_be_bytes(x) == [i \in 1..8 |-> byte_at(x, 8 - i)]

\* router_schema.rs:25-29: a 20-byte address of one repeated byte,
\* left-padded to 32 bytes
address32(b) == [i \in 1..32 |-> IF i <= 12 THEN 0 ELSE b]

\* lib.rs:344-345, router_schema.rs:37-38: the amount as uint256 BE
amount_be(x) == [i \in 1..32 |-> IF i <= 24 THEN 0 ELSE to_be_bytes(x)[i - 24]]

\* hash.rs:5-13: the digest of the bytes fed to the hasher; keccak is taken
\* as collision free, the digest stands for exactly the bytes hashed
keccak256(bytes) == [keccak256 |-> bytes]

\* hash.rs:29-37: the buffer message_hash_be hashes
message_hash_be_buf(src_chain_id, src_adapter_32, recipient_32, asset_32, amount_32, payload_hash, nonce, dst_chain_id) ==
    to_be_bytes(src_chain_id) \o src_adapter_32 \o recipient_32 \o asset_32
        \o amount_32 \o payload_hash \o to_be_bytes(nonce)
        \o to_be_bytes(dst_chain_id)

\* hash.rs:49-54: the buffer global_route_id hashes
global_route_id_buf(src_chain_id, dst_chain_id, initiator_32, message_hash, nonce) ==
    to_be_bytes(src_chain_id) \o to_be_bytes(dst_chain_id) \o initiator_32
        \o message_hash \o to_be_bytes(nonce)

\* router_schema.rs:22-55: the inputs of the hash vectors
HashSrcChainIds == {1, 42161}

HashDstChainIds == {2, 8453}

HashNonces == {1, 42, 300}

HashAddresses == {address32(17), address32(34)}

HashAmounts == {123456, U64_MAX}

\* the router states the pure functions are called in
InitHash ==
    \E fresh \in BOOLEAN :
        LET s == IF fresh THEN State0
                 ELSE hub_setup(FEE_CAP_BPS, RELAYER_FEE_CAP_BPS, TRUE) IN
        /\ config = s.config
        /\ registry = s.registry
        /\ replay = s.replay
        /\ telemetry = s.telemetry
        /\ adapter_replay = s.adapter_replay
        /\ balances = s.balances
        /\ events = <<>>
        /\ last = NoCall
        /\ rejected = {}
        /\ paused_once = {}

HashMessage ==
    \E src \in HashSrcChainIds, dst \in HashDstChainIds, adapter \in HashAddresses,
       amount \in HashAmounts, nonce \in HashNonces :
        LET args == <<src, adapter, ZERO_HASH, address32(34),
                      amount_be(amount), address32(51), nonce, dst>>
        IN
        /\ UNCHANGED <<StateVars, events, rejected, paused_once>>
        /\ last' = [op |-> "message_hash_be", args |-> args,
                    out |-> keccak256(message_hash_be_buf(
                                args[1], args[2], args[3], args[4], args[5],
                                args[6], args[7], args[8]))]

HashRoute ==
    \E src \in HashSrcChainIds, dst \in HashDstChainIds, initiator \in HashAddresses,
       message_hash \in HashAddresses, nonce \in HashNonces :
        LET args == <<src, dst, initiator, message_hash, nonce>> IN
        /\ UNCHANGED <<StateVars, events, rejected, paused_once>>
        /\ last' = [op |-> "global_route_id", args |-> args,
                    out |-> keccak256(global_route_id_buf(
                                args[1], args[2], args[3], args[4],
                                args[5]))]

NextHash == HashMessage \/ HashRoute

SpecHash == InitHash /\ [][NextHash]_vars

(***************************************************************************)
(* validate_vault_pda_or_authority on its own, over accounts of every      *)
(* shape.                                                                  *)
(***************************************************************************)
\* vault_patterns.rs:51-327: the PDA itself, accounts at other addresses,
\* owned by the token program or not, under the PDA's or another authority
VaultCandidates ==
    [key : {"pda_hub_protocol_vault_usdc", "pda_hub_protocol_vault_other",
            "vault_b", "mallory_ata", "user_ata"},
     program_owner : {TOKEN_ID, "SystemProgram"},
     owner : {"pda_hub_protocol_vault_usdc", "pda_hub_protocol_vault_other",
              "mallory"}]

ValidateVault ==
    \E acc \in VaultCandidates, mint \in Mints :
        /\ UNCHANGED <<StateVars, events, rejected, paused_once>>
        /\ last' = [op |-> "validate_vault_pda_or_authority", acc |-> acc,
                    mint |-> mint, out |-> validate_vault(acc, mint)]

NextVault == ValidateVault

SpecVault == InitHash /\ [][NextVault]_vars

(***************************************************************************)
(* The CPI entrypoints together with adapters that keep a replay record.   *)
(***************************************************************************)
\* zpx_adapter/src/lib.rs:143-146, 222-249 and cctp_adapters_real.rs: the
\* payloads adapters are called with
AdapterPayloads == {<<>>, <<0>>, <<1>>, <<2>>, <<0, 1>>}

\* the programs the CPI entrypoints are pointed at
GuardedCpiTargets == {"mock_adapter", "mock_cpi", "zpx_adapter"}

ProcessTransfer ==
    \E program \in GuardedAdapters \ {"mock_adapter"},
       message \in AdapterMessages, handle \in AdapterMessages,
       payload \in AdapterPayloads :
        LET replay_account == adapter_replay_pda(program, handle) IN
        Run([op |-> "process_transfer", authority |-> "relayer",
             adapter |-> program, message |-> message,
             replay |-> replay_account],
            adapter_process_transfer(CurState, program, message,
                                     replay_account, payload))

PassthroughCpi ==
    \E program \in GuardedCpiTargets, message \in AdapterMessages,
       owner \in {"mock_adapter", "zpx_adapter"},
       data \in AdapterPayloads :
        LET replay_account == adapter_replay_pda(owner, message) IN
        Run([op |-> "adapter_passthrough", authority |-> "relayer",
             adapter |-> program, message |-> message,
             replay |-> replay_account,
             adapter_res |->
                 adapter_invoke(CurState, program,
                                <<message, replay_account>>, data).res],
            adapter_passthrough(CurState, program, message, replay_account,
                                data))

BridgeCpi ==
    \E program \in GuardedCpiTargets :
        Run([op |-> "bridge_with_adapter_cpi", authority |-> "relayer",
             adapter |-> program,
             adapter_res |->
                 adapter_invoke(CurState, program, <<>>, <<0>>).res],
            bridge_with_adapter_cpi(CurState, program))

NextCpi == ProcessTransfer \/ PassthroughCpi \/ BridgeCpi

SpecCpi == Init /\ [][NextCpi]_vars

(***************************************************************************)
(* The CCTP adapters called directly, several times per message.           *)
(***************************************************************************)
\* cctp_adapters_real.rs: payloads around the two accepted prefixes
CctpPayloads ==
    AdapterPayloads \cup {<<0, 2>>, <<1, 1>>, <<0, 1, 5>>, <<0, 0>>}

\* process_transfer of one of the CCTP adapters; the call remembers the
\* outcome of the call before it when that one used the same replay record
CctpProcessTransfer ==
    \E program \in {"cctp_v1", "cctp_v2"}, message \in AdapterMessages,
       payload \in CctpPayloads :
        LET replay_account == adapter_replay_pda(program, message)
            before == IF last # NoCall /\ last.replay = replay_account
                      THEN last.res ELSE "none"
        IN Run([op |-> "process_transfer", authority |-> "relayer",
                adapter |-> program, message |-> message,
                replay |-> replay_account, payload |-> payload,
                before |-> before],
               adapter_process_transfer(CurState, program, message,
                                        replay_account, payload))

NextCctp == CctpProcessTransfer

SpecCctp == Init /\ [][NextCctp]_vars

(***************************************************************************)
(* The spoke registry up to its capacity: the admin fills it spoke by      *)
(* spoke, and at any fill level a few administrative calls are made.       *)
(***************************************************************************)
\* administrative calls made after the registry was filled
MaxSpokeOps == 2

\* ids at both ends of the filled registry and two that are never present
SpokePoolIds == {1, 2, MAX_SPOKES, MAX_SPOKES + 1, MAX_SPOKES + 2}

SpokeCallers ==
    {[authority |-> "admin", admin |-> "admin"],
     [authority |-> "mallory", admin |-> "mallory"]}

create_spoke_args(c, spoke_id, adapter_program, direct) ==
    [authority |-> c.authority, admin |-> c.admin, spoke_id |-> spoke_id,
     adapter_program |-> adapter_program, direct_relayer_payout |-> direct,
     version |-> 1, metadata |-> NoneMeta, slot |-> 100]

\* the hub after initialize_config and initialize_registry
spokes_setup == initialize_registry(initialize_config(State0, InitBase).st).st

InitSpokes ==
    /\ config = spokes_setup.config
    /\ registry = spokes_setup.registry
    /\ replay = spokes_setup.replay
    /\ telemetry = spokes_setup.telemetry
    /\ adapter_replay = spokes_setup.adapter_replay
    /\ balances = spokes_setup.balances
    /\ events = <<>>
    /\ last = NoCall
    /\ rejected = {}
    /\ paused_once = {}

\* the admin fills the registry: create_spoke(1), create_spoke(2), ...
FillSpokes ==
    /\ OpsDone = 0
    /\ Run([op |-> "create_spoke", authority |-> "admin", admin |-> "admin",
            spoke_id |-> registry.spokes_len + 1, n |-> 0],
           create_spoke(CurState,
                        create_spoke_args([authority |-> "admin",
                                           admin |-> "admin"],
                                          registry.spokes_len + 1,
                                          "adapterA", FALSE)))

CreateSpokePool ==
    /\ OpsDone < MaxSpokeOps
    /\ \E c \in SpokeCallers, spoke_id \in SpokePoolIds :
        Run([op |-> "create_spoke", authority |-> c.authority,
             admin |-> c.admin, spoke_id |-> spoke_id, n |-> OpsDone + 1],
            create_spoke(CurState,
                         create_spoke_args(c, spoke_id, "adapterB", TRUE)))

UpdateSpokePool ==
    /\ OpsDone < MaxSpokeOps
    /\ \E c \in SpokeCallers, spoke_id \in SpokePoolIds,
          adapter_program \in {NoneKey, Some("adapterB")},
          paused \in {NoneBool, Some(TRUE)} :
        LET a == [authority |-> c.authority, admin |-> c.admin,
                  spoke_id |-> spoke_id, adapter_program |-> adapter_program,
                  direct_relayer_payout |-> NoneBool,
                  paused |-> paused, metadata |-> NoneMeta]
        IN Run([op |-> "update_spoke", authority |-> c.authority,
                admin |-> c.admin, spoke_id |-> spoke_id, n |-> OpsDone + 1],
               update_spoke(CurState, a))

PauseSpokePool ==
    /\ OpsDone < MaxSpokeOps
    /\ \E c \in SpokeCallers, spoke_id \in SpokePoolIds :
        LET a == [authority |-> c.authority, admin |-> c.admin,
                  spoke_id |-> spoke_id]
        IN Run([op |-> "pause_spoke", authority |-> c.authority,
                admin |-> c.admin, spoke_id |-> spoke_id, n |-> OpsDone + 1],
               pause_spoke(CurState, a))

EnableSpokePool ==
    /\ OpsDone < MaxSpokeOps
    /\ \E c \in SpokeCallers, spoke_id \in SpokePoolIds :
        LET a == [authority |-> c.authority, admin |-> c.admin,
                  spoke_id |-> spoke_id]
        IN Run([op |-> "enable_spoke", authority |-> c.authority,
                admin |-> c.admin, spoke_id |-> spoke_id, n |-> OpsDone + 1],
               enable_spoke(CurState, a))

NextSpokes ==
    FillSpokes \/ CreateSpokePool \/ UpdateSpokePool \/ PauseSpokePool \/ EnableSpokePool

SpecSpokes == InitSpokes /\ [][NextSpokes]_vars

(***************************************************************************)
(* update_spoke as a patch: a registry of two spokes and one call with     *)
(* every combination of supplied and omitted fields.                       *)
(***************************************************************************)
\* metadata strings shorter and longer than SPOKE_METADATA_LEN
PatchMetadata ==
    {NoneMeta, Some(<<7, 8>>),
     Some(<<1, 2, 3, 4, 5, 6, 7, 8, 9, 10, 11, 12, 13, 14, 15, 16, 17>>)}

\* the hub after create_spoke(1) and create_spoke(2)
patch_setup ==
    LET s1 == create_spoke(spokes_setup,
                  [create_spoke_args([authority |-> "admin",
                                      admin |-> "admin"],
                                     1, "adapterA", FALSE)
                      EXCEPT !.metadata = Some(<<1>>)]).st
    IN create_spoke(s1,
           [create_spoke_args([authority |-> "admin", admin |-> "admin"],
                              2, "adapterA", TRUE)
               EXCEPT !.version = 2, !.slot = 200]).st

InitPatch ==
    /\ config = patch_setup.config
    /\ registry = patch_setup.registry
    /\ replay = patch_setup.replay
    /\ telemetry = patch_setup.telemetry
    /\ adapter_replay = patch_setup.adapter_replay
    /\ balances = patch_setup.balances
    /\ events = <<>>
    /\ last = NoCall
    /\ rejected = {}
    /\ paused_once = {}

UpdateSpokePatch ==
    /\ last = NoCall \/ last.op = "pause_spoke"
    /\ \E spoke_id \in {1, 2, 3},
          adapter_program \in {NoneKey, Some("adapterB")},
          direct \in {NoneBool, Some(TRUE), Some(FALSE)},
          paused \in {NoneBool, Some(TRUE), Some(FALSE)},
          metadata \in PatchMetadata :
        LET a == [authority |-> "admin", admin |-> "admin",
                  spoke_id |-> spoke_id, adapter_program |-> adapter_program,
                  direct_relayer_payout |-> direct, paused |-> paused,
                  metadata |-> metadata]
        IN Run([op |-> "update_spoke", authority |-> "admin",
                admin |-> "admin", spoke_id |-> spoke_id, patch |-> a],
               update_spoke(CurState, a))

PauseSpokePatch ==
    /\ last = NoCall
    /\ \E spoke_id \in {1, 2, 3} :
        LET a == [authority |-> "admin", admin |-> "admin",
                  spoke_id |-> spoke_id]
        IN Run([op |-> "pause_spoke", authority |-> "admin",
                admin |-> "admin", spoke_id |-> spoke_id],
               pause_spoke(CurState, a))

EnableSpokePatch ==
    /\ last = NoCall \/ last.op = "pause_spoke"
    /\ \E spoke_id \in {1, 2, 3} :
        LET a == [authority |-> "admin", admin |-> "admin",
                  spoke_id |-> spoke_id]
        IN Run([op |-> "enable_spoke", authority |-> "admin",
                admin |-> "admin", spoke_id |-> spoke_id],
               enable_spoke(CurState, a))

NextPatch == UpdateSpokePatch \/ PauseSpokePatch \/ EnableSpokePatch

SpecPatch == InitPatch /\ [][NextPatch]_vars

(***************************************************************************)
(* The payload size limit: the two validators on their own and one         *)
(* transfer per payload length.                                            *)
(***************************************************************************)
\* fuzz_neg.rs:44-48 draws len from 0..=2048; lib.rs:1313-1318 tests 0, 512
\* and 513
PayloadLens == {0, 1, 511, 512, 513, 514, 1024, 2048}

PayloadAmounts == {0, 1, 10000, U64_MAX}

InitPayload ==
    LET s == mint_setup(FALSE, USDC) IN
    /\ config = s.config
    /\ registry = s.registry
    /\ replay = s.replay
    /\ telemetry = s.telemetry
    /\ adapter_replay = s.adapter_replay
    /\ balances = s.balances
    /\ events = <<>>
    /\ last = NoCall
    /\ rejected = {}
    /\ paused_once = {}

ValidatePayloadLen ==
    \E payload_len \in PayloadLens :
        /\ UNCHANGED <<StateVars, events, rejected, paused_once>>
        /\ last' = [op |-> "validate_payload_len",
                    payload_len |-> payload_len,
                    out |-> validate_payload_len(payload_len)]

ValidateCommon ==
    \E amount \in PayloadAmounts, payload_len \in PayloadLens,
       paused \in BOOLEAN, src_chain_id \in {0, 1} :
        /\ UNCHANGED <<StateVars, events, rejected, paused_once>>
        /\ last' = [op |-> "validate_common", amount |-> amount,
                    payload_len |-> payload_len, paused |-> paused,
                    src_chain_id |-> src_chain_id,
                    out |-> validate_common(amount, payload_len, paused,
                                            src_chain_id)]

TransferPayload ==
    /\ last = NoCall
    /\ \E amount \in PayloadAmounts \ {U64_MAX}, payload_len \in PayloadLens :
        LET a == [TransferBase EXCEPT !.amount = amount,
                                      !.payload_len = payload_len]
        IN Run([op |-> "universal_bridge_transfer", authority |-> "user",
                amount |-> a.amount, protocol_fee |-> a.protocol_fee,
                relayer_fee |-> a.relayer_fee, mint |-> a.mint,
                target |-> a.target_adapter_program,
                payload_len |-> a.payload_len,
                accounts |-> ubt_accounts(CurState, a)],
               universal_bridge_transfer(CurState, a))

NextPayload == ValidatePayloadLen \/ ValidateCommon \/ TransferPayload

SpecPayload == InitPayload /\ [][NextPayload]_vars

(***************************************************************************)
(* Chain ids around the 16-bit edge: a hub initialized with each source    *)
(* chain id, then one transfer per destination chain id.                   *)
(***************************************************************************)
\* both sides of u16::MAX; 65537 and U64_MAX truncate to 1 and 65535
ChainIds == {0, 1, 2, U16_MAX, U16_MAX + 1, U16_MAX + 2, U64_MAX}

ChainAmounts == {0, 1, 10000}

\* the hub after initialize_config(src_chain_id) and add_adapter(adapterA)
chain_setup(src_chain_id) ==
    add_adapter(
        initialize_config(State0,
            [InitBase EXCEPT !.src_chain_id = src_chain_id]).st,
        "admin", "adapterA").st

InitChain ==
    \E src_chain_id \in ChainIds :
        LET s == chain_setup(src_chain_id) IN
        /\ config = s.config
        /\ registry = s.registry
        /\ replay = s.replay
        /\ telemetry = s.telemetry
        /\ adapter_replay = s.adapter_replay
        /\ balances = s.balances
        /\ events = <<>>
        /\ last = NoCall
        /\ rejected = {}
        /\ paused_once = {}

TransferChain ==
    /\ last = NoCall
    /\ \E dst_chain_id \in ChainIds, amount \in ChainAmounts :
        LET a == [TransferBase EXCEPT !.amount = amount,
                                      !.dst_chain_id = dst_chain_id]
        IN Run([op |-> "universal_bridge_transfer", authority |-> "user",
                amount |-> a.amount, protocol_fee |-> a.protocol_fee,
                relayer_fee |-> a.relayer_fee, mint |-> a.mint,
                target |-> a.target_adapter_program,
                payload_len |-> a.payload_len,
                dst_chain_id |-> a.dst_chain_id,
                accounts |-> ubt_accounts(CurState, a)],
               universal_bridge_transfer(CurState, a))

NextChain == TransferChain

SpecChain == InitChain /\ [][NextChain]_vars

(***************************************************************************)
(* The pause switch: a hub whose Config account holds paused = true or     *)
(* false, an update_config that passes paused = Some(false), then one      *)
(* transfer or one forward.                                                *)
(***************************************************************************)
PausedAmounts == {1, 2000, 10000}

\* the hub with a spoke and a listed adapter; router_schema.rs:104-126
\* builds the Config with paused: true
paused_setup(paused, direct) ==
    LET s == add_adapter(hub_setup(FEE_CAP_BPS, RELAYER_FEE_CAP_BPS, direct),
                         "admin", "adapterA").st
    IN [s EXCEPT !.config.paused = paused]

InitPaused ==
    \E paused \in BOOLEAN, direct \in BOOLEAN :
        LET s == paused_setup(paused, direct) IN
        /\ config = s.config
        /\ registry = s.registry
        /\ replay = s.replay
        /\ telemetry = s.telemetry
        /\ adapter_replay = s.adapter_replay
        /\ balances = s.balances
        /\ events = <<>>
        /\ last = NoCall
        /\ rejected = {}
        /\ paused_once = {}

UnpauseConfig ==
    /\ last = NoCall
    /\ \E authority \in {"admin", "mallory"} :
        LET p == [NoPatch EXCEPT !.paused = Some(FALSE)] IN
        Run([op |-> "update_config", authority |-> authority, patch |-> p],
            update_config(CurState, authority, p))

TransferPaused ==
    /\ last = NoCall \/ last.op = "update_config"
    /\ \E amount \in PausedAmounts, fees \in MintFees :
        LET a == [TransferBase EXCEPT !.amount = amount,
                                      !.protocol_fee = 0,
                                      !.relayer_fee = fees[1]]
        IN Run([op |-> "universal_bridge_transfer", authority |-> "user",
                amount |-> a.amount, protocol_fee |-> a.protocol_fee,
                relayer_fee |-> a.relayer_fee, mint |-> a.mint,
                target |-> a.target_adapter_program,
                payload_len |-> a.payload_len,
                accounts |-> ubt_accounts(CurState, a)],
               universal_bridge_transfer(CurState, a))

ForwardPaused ==
    /\ last = NoCall \/ last.op = "update_config"
    /\ \E amount \in PausedAmounts, is_protocol_fee \in BOOLEAN,
          is_relayer_fee \in BOOLEAN,
          relayer \in {"relayer", "admin", "mallory"}, spoke_id \in {1, 2} :
        LET a == [ForwardBase EXCEPT !.amount = amount,
                                     !.relayer = relayer,
                                     !.spoke_id = spoke_id,
                                     !.is_protocol_fee = is_protocol_fee,
                                     !.is_relayer_fee = is_relayer_fee]
        IN Run([op |-> "forward_via_spoke", authority |-> a.relayer,
                amount |-> a.amount, spoke_id |-> a.spoke_id,
                is_protocol_fee |-> is_protocol_fee,
                is_relayer_fee |-> is_relayer_fee],
               forward_via_spoke(CurState, a))

NextPaused == UnpauseConfig \/ TransferPaused \/ ForwardPaused

SpecPaused == InitPaused /\ [][NextPaused]_vars

(***************************************************************************)
(* adapter_passthrough on a hub with one spoke bound to adapterA: calls by *)
(* the relayer, the admin and a stranger, into the bound adapter and into  *)
(* programs no spoke names.                                                *)
(***************************************************************************)
\* the fee payers of the transaction; AdapterPassthrough (lib.rs:940-949)
\* has no signer account of its own
PassthroughCallers == {"relayer", "admin", "mallory"}

PassthroughTargets == {"adapterA", "mock_adapter", "mock_cpi"}

InitGate ==
    \E spoke_paused \in BOOLEAN :
        LET h == hub_setup(FEE_CAP_BPS, RELAYER_FEE_CAP_BPS, FALSE)
            s == IF spoke_paused
                 THEN pause_spoke(h, [authority |-> "admin",
                                      admin |-> "admin", spoke_id |-> 1]).st
                 ELSE h
        IN
        /\ config = s.config
        /\ registry = s.registry
        /\ replay = s.replay
        /\ telemetry = s.telemetry
        /\ adapter_replay = s.adapter_replay
        /\ balances = s.balances
        /\ events = <<>>
        /\ last = NoCall
        /\ rejected = {}
        /\ paused_once = {}

PassthroughGate ==
    \E caller \in PassthroughCallers, program \in PassthroughTargets,
       message \in AdapterMessages, data \in AdapterPayloads :
        LET replay_account == adapter_replay_pda("mock_adapter", message) IN
        Run([op |-> "adapter_passthrough", authority |-> caller,
             adapter |-> program, message |-> message,
             replay |-> replay_account,
             adapter_res |->
                 adapter_invoke(CurState, program,
                                <<message, replay_account>>, data).res],
            adapter_passthrough(CurState, program, message, replay_account,
                                data))

NextGate == PassthroughGate

SpecGate == InitGate /\ [][NextGate]_vars

(***************************************************************************)
(* Inputs of the fee engine checks: the edges of the u64 range and the     *)
(* values on both sides of each cap.                                       *)
(***************************************************************************)
FeeAmounts == {0, 1, 1999, 2000, 10000, 100000, U64_MAX - 1, U64_MAX}

FeeCaps == {0, 1, FEE_CAP_BPS, RELAYER_FEE_CAP_BPS, BPS_DENOM}

FeeValues ==
    ({0, 1, U64_MAX - 1, U64_MAX}
     \cup UNION {{(a * c) \div BPS_DENOM, ((a * c) \div BPS_DENOM) + 1,
                  a - ((a * c) \div BPS_DENOM)} :
                 <<a, c>> \in FeeAmounts \X FeeCaps})
    \cap (0..U64_MAX)

\* a direct call of the pure function on one input tuple
ComputeFees ==
    /\ last = NoCall
    /\ \E amount \in FeeAmounts, protocol_fee \in FeeValues,
       relayer_fee \in FeeValues, relayer_bps_cap \in FeeCaps :
         /\ UNCHANGED <<StateVars, events, rejected, paused_once>>
         /\ last' = [op |-> "compute_fees_and_forward",
                     amount |-> amount, protocol_fee |-> protocol_fee,
                     relayer_fee |-> relayer_fee,
                     relayer_bps_cap |-> relayer_bps_cap,
                     out |-> compute_fees_and_forward(amount, protocol_fee,
                                                      relayer_fee,
                                                      relayer_bps_cap)]

NextFee == ComputeFees

SpecFee == Init /\ [][NextFee]_vars

IsFeeCall == last.op = "compute_fees_and_forward"

\* C3: whenever compute_fees_and_forward returns Ok((forward_amount,
\* total_fees)): total_fees = protocol_fee + relayer_fee, forward_amount +
\* total_fees = amount exactly, and total_fees <= amount.
C3_FeeSplitExact ==
    (IsFeeCall /\ last.out.res = "Ok") =>
        /\ last.out.total_fees = last.protocol_fee + last.relayer_fee
        /\ last.out.forward_amount + last.out.total_fees = last.amount
        /\ last.out.total_fees <= last.amount
        /\ last.out.forward_amount \in 0..U64_MAX

\* a successful split with both fees non-zero and a non-zero remainder
C3_Witness ==
    /\ IsFeeCall /\ last.out.res = "Ok"
    /\ last.protocol_fee > 0 /\ last.relayer_fee > 0
    /\ last.out.forward_amount > 0

\* C5: for amount > 0 the call fails with ProtocolFeeTooHigh exactly when
\* protocol_fee exceeds floor(amount*5/10000); a fee equal to that floor
\* passes the protocol cap check.
C5_ProtocolCap ==
    (IsFeeCall /\ last.amount > 0) =>
        LET cap == (last.amount * FEE_CAP_BPS) \div BPS_DENOM IN
        /\ (last.protocol_fee > cap) => last.out.res = "ProtocolFeeTooHigh"
        /\ (last.protocol_fee <= cap) => last.out.res # "ProtocolFeeTooHigh"

\* the protocol fee one above a non-zero floor is rejected at the top of
\* the u64 range
C5_Witness ==
    /\ IsFeeCall /\ last.amount = U64_MAX
    /\ last.protocol_fee = ((U64_MAX * FEE_CAP_BPS) \div BPS_DENOM) + 1
    /\ last.out.res = "ProtocolFeeTooHigh"

\* C6: for amount > 0, relayer_bps_cap > 0 and a protocol fee within its
\* cap, the call fails with RelayerFeeTooHigh exactly when relayer_fee
\* exceeds floor(amount*relayer_bps_cap/10000); a fee equal to that floor
\* passes the relayer cap check.
C6_RelayerCap ==
    (IsFeeCall /\ last.amount > 0 /\ last.relayer_bps_cap > 0
        /\ last.protocol_fee <= (last.amount * FEE_CAP_BPS) \div BPS_DENOM) =>
        LET cap == (last.amount * last.relayer_bps_cap) \div BPS_DENOM IN
        /\ (last.relayer_fee > cap) => last.out.res = "RelayerFeeTooHigh"
        /\ (last.relayer_fee <= cap) => last.out.res # "RelayerFeeTooHigh"

\* amount = 100000, cap = 1000 bps: the relayer fee 10000 sits exactly on the
\* cap and is accepted
C6_Witness ==
    /\ IsFeeCall /\ last.amount = 100000
    /\ last.relayer_bps_cap = RELAYER_FEE_CAP_BPS
    /\ last.relayer_fee = 10000 /\ last.protocol_fee = 0
    /\ last.out.res = "Ok"

\* C7: for amount > 0, a fee sum that exceeds amount in unbounded integers
\* (including a sum above u64::MAX) always yields an error, never a wrapped
\* total; a sum above u64::MAX that passes both cap checks yields
\* MathOverflow.
C7_FeeSumNotWrapped ==
    (IsFeeCall /\ last.amount > 0) =>
        LET sum == last.protocol_fee + last.relayer_fee
            capsPass ==
                /\ last.protocol_fee
                      <= (last.amount * FEE_CAP_BPS) \div BPS_DENOM
                /\ (last.relayer_bps_cap > 0 =>
                      last.relayer_fee
                        <= (last.amount * last.relayer_bps_cap) \div BPS_DENOM)
        IN
        /\ (sum > last.amount) => last.out.res # "Ok"
        /\ (last.out.res = "Ok") => last.out.total_fees = sum
        /\ (sum > U64_MAX /\ capsPass) => last.out.res = "MathOverflow"

\* a fee sum above u64::MAX that passed the cap checks (cap 0 disables the
\* relayer check) and was reported as MathOverflow
C7_Witness ==
    /\ IsFeeCall /\ last.amount > 0
    /\ last.protocol_fee + last.relayer_fee > U64_MAX
    /\ last.protocol_fee > 0
    /\ last.out.res = "MathOverflow"

(***************************************************************************)
(* Replay guard.                                                           *)
(***************************************************************************)
IsFinalize == last.op = "finalize_message_v1"

ProcessedReplay == [initialized |-> TRUE, processed |-> 1]

\* C1: for every message hash h, a finalize for h that passes validation
\* while h's record is Absent succeeds and leaves the record Processed; a
\* finalize for h while the record is Processed fails and changes nothing,
\* with ReplayAlreadyProcessed when it passes validation; no step returns a
\* Processed record to Absent.
C1_ReplayOneWay ==
    [][\A h \in MessageHashes :
         /\ replay[h] = ProcessedReplay => replay'[h] = ProcessedReplay
         /\ (IsFinalize' /\ last'.message_hash = h) =>
              /\ (last'.validated = "Ok" /\ replay[h] = AbsentReplay) =>
                   (last'.res = "Ok" /\ replay'[h] = ProcessedReplay)
              /\ replay[h] = ProcessedReplay =>
                   /\ last'.res # "Ok"
                   /\ UNCHANGED StateVars
                   /\ events' = <<>>
                   /\ last'.validated = "Ok" =>
                        last'.res = "ReplayAlreadyProcessed"]_vars

\* a second finalize of a processed hash was rejected by the replay guard
C1_Witness ==
    /\ IsFinalize
    /\ last.validated = "Ok"
    /\ last.res = "ReplayAlreadyProcessed"
    /\ replay[last.message_hash] = ProcessedReplay

\* C2: in every serialization of finalize calls, each message hash has at
\* most one successful finalize and at most one telemetry event: the event
\* count of a hash is 1 exactly when its record is Processed, a successful
\* finalize emits exactly one event, and a call rejected with the replay
\* error found the one earlier success.
C2_AtMostOneFinalize ==
    /\ \A h \in MessageHashes :
         /\ telemetry[h] <= 1
         /\ (telemetry[h] = 1) <=> (replay[h] = ProcessedReplay)
    /\ (IsFinalize /\ last.res = "Ok") =>
         /\ Len(events) = 1
         /\ events[1].message_hash = last.message_hash
         /\ telemetry[last.message_hash] = 1
    /\ (IsFinalize /\ last.res = "ReplayAlreadyProcessed") =>
         /\ events = <<>>
         /\ telemetry[last.message_hash] = 1

\* two finalize calls for one hash were serialized: the second one lost
C2_Witness ==
    \E h \in MessageHashes :
        /\ IsFinalize
        /\ last.message_hash = h
        /\ last.res = "ReplayAlreadyProcessed"
        /\ telemetry[h] = 1
        /\ events = <<>>

(***************************************************************************)
(* Fee caps in the transfer path.                                          *)
(***************************************************************************)
IsTransfer == last.op = "universal_bridge_transfer"

\* C4: in every successful universal_bridge_transfer, under every Config
\* (relayer_fee_bps = 0 included), protocol_fee * 10000 <= amount * 5 and
\* relayer_fee * 10000 <= amount * Config.relayer_fee_bps.
C4_NoFeeExceedsCap ==
    (IsTransfer /\ last.res = "Ok") =>
        /\ last.protocol_fee * BPS_DENOM <= last.amount * FEE_CAP_BPS
        /\ last.relayer_fee * BPS_DENOM
               <= last.amount * config.relayer_fee_bps

\* a successful transfer whose relayer fee was checked against a positive cap
C4_Witness ==
    /\ IsTransfer
    /\ last.res = "Ok"
    /\ config.relayer_fee_bps > 0
    /\ last.relayer_fee > 0

(***************************************************************************)
(* Authorization.                                                          *)
(***************************************************************************)
SpokeAdminOps == {"create_spoke", "update_spoke", "pause_spoke", "enable_spoke"}

ConfigAdminOps ==
    {"update_config", "add_adapter", "remove_adapter", "admin_withdraw"}

\* C8: a create_spoke, update_spoke, pause_spoke or enable_spoke call on an
\* initialized Config and Registry whose signing authority differs from
\* Config.admin fails with Unauthorized and leaves the Registry unchanged,
\* whatever account it passes as `admin`.
C8_SpokeAdminOnly ==
    [][(/\ last'.op \in SpokeAdminOps
        /\ config.initialized
        /\ registry.initialized
        /\ last'.authority # config.admin) =>
           (last'.res = "Unauthorized" /\ registry' = registry)]_vars

\* a spoke call signed by a non-admin that passed no admin key was rejected
C8_Witness ==
    /\ last.op \in SpokeAdminOps
    /\ last.authority # config.admin
    /\ last.admin # config.admin
    /\ last.res = "Unauthorized"

\* C9: an update_config, add_adapter, remove_adapter or admin_withdraw call
\* on an initialized Config whose signer differs from Config.admin fails
\* with Unauthorized, changes neither Config (allowlist included) nor any
\* token balance, and emits no event.
C9_ConfigAdminOnly ==
    [][(/\ last'.op \in ConfigAdminOps
        /\ config.initialized
        /\ last'.authority # config.admin) =>
           /\ last'.res = "Unauthorized"
           /\ config' = config
           /\ balances' = balances
           /\ events' = <<>>]_vars

\* a non-admin tried to withdraw from a funded protocol vault
C9_Witness ==
    /\ last.op = "admin_withdraw"
    /\ last.authority # config.admin
    /\ last.res = "Unauthorized"
    /\ balances["pda_hub_protocol_vault_usdc"] > 0

(***************************************************************************)
(* Atomicity.                                                              *)
(***************************************************************************)
EconomicErrors ==
    {"ZeroAmount", "ProtocolFeeTooHigh", "RelayerFeeTooHigh",
     "FeesExceedAmount", "MathOverflow"}

\* C10: a call that fails at any step leaves Config, Registry, replay
\* records and all token balances as they were before the call and emits no
\* event; a call that fails a fee check has made no token transfer.
C10_AllOrNothing ==
    [][/\ last'.res # "Ok" => (UNCHANGED StateVars /\ events' = <<>>)
       /\ last'.res \in EconomicErrors => last'.moved = 0]_vars

\* a transfer failed after the fee transfer of the same call had succeeded
C10_Witness ==
    /\ IsTransfer
    /\ last.res = "TokenTransferFailed"
    /\ last.moved = 1
    /\ balances["ata_tokenprogram_usdc"] + balances["adapter_target_ata"]
           + balances["user_ata"] = InitialUserBalance

(***************************************************************************)
(* Finalize validation.                                                    *)
(***************************************************************************)
\* C11: a finalize whose declared source adapter is not in the allowlist
\* fails and changes nothing (the replay record of the hash stays as it was,
\* no event), with AdapterNotAllowed when the chain ids and the hash are
\* valid; a hash so rejected whose record is Absent is finalized by the
\* next valid finalize for it.
C11_UnlistedAdapterRejected ==
    [][\A h \in MessageHashes :
         (IsFinalize' /\ last'.message_hash = h /\ config.initialized) =>
           /\ ~is_allowed_adapter_cfg(config, last'.src_adapter) =>
                /\ last'.res # "Ok"
                /\ UNCHANGED StateVars
                /\ events' = <<>>
                /\ (last'.chain_ok /\ last'.hash_ok) =>
                     last'.res = "AdapterNotAllowed"
           /\ (h \in rejected /\ replay[h] = AbsentReplay
                 /\ last'.validated = "Ok") =>
                (last'.res = "Ok" /\ replay'[h] = ProcessedReplay)]_vars

\* a message rejected for its adapter was finalized after the adapter was
\* allowlisted
C11_Witness ==
    /\ IsFinalize
    /\ last.res = "Ok"
    /\ last.message_hash \in rejected
    /\ replay[last.message_hash] = ProcessedReplay

\* C12: a finalize whose declared hash differs from the hash recomputed from
\* the supplied fields fails, with HashMismatch when the chain ids are
\* valid, and leaves every replay record (the declared hash's included)
\* unchanged and emits no event.
C12_HashMismatchRejected ==
    [][(IsFinalize' /\ config.initialized /\ ~last'.hash_ok) =>
          /\ last'.res # "Ok"
          /\ replay' = replay
          /\ telemetry' = telemetry
          /\ events' = <<>>
          /\ last'.chain_ok => last'.res = "HashMismatch"]_vars

\* a finalize declaring an already processed hash for other fields was
\* rejected and the record is still Processed
C12_Witness ==
    /\ IsFinalize
    /\ ~last.hash_ok
    /\ last.res = "HashMismatch"
    /\ replay[last.message_hash] = ProcessedReplay
    /\ \E h \in MessageHashes : replay[h] = AbsentReplay

(***************************************************************************)
(* Spoke gating of forward_via_spoke.                                      *)
(***************************************************************************)
IsForward == last.op = "forward_via_spoke"

SpokeIds == {1, 2}

\* a spoke with the id is registered, enabled and not paused
SpokeActive(reg, id) ==
    \E i \in 1..reg.spokes_len :
        /\ reg.spokes[i].spoke_id = id
        /\ reg.spokes[i].enabled
        /\ ~reg.spokes[i].paused

\* a spoke with the id is registered and paused
SpokePaused(reg, id) ==
    \E i \in 1..reg.spokes_len :
        reg.spokes[i].spoke_id = id /\ reg.spokes[i].paused

\* C13: on initialized accounts a forward_via_spoke succeeds only if its
\* spoke is registered, enabled and not paused; otherwise it fails and moves
\* no funds, with AdapterNotAllowed when the caller is the relayer or the
\* admin; a successful pause_spoke leaves the spoke paused, a paused spoke
\* stays paused until enable_spoke or update_spoke succeeds on it, and a
\* successful enable_spoke leaves it forwardable again.
C13_ForwardSpokeGate ==
    [][/\ (IsForward' /\ config.initialized /\ registry.initialized) =>
            /\ last'.res = "Ok" => SpokeActive(registry, last'.spoke_id)
            /\ ~SpokeActive(registry, last'.spoke_id) =>
                 /\ last'.res # "Ok"
                 /\ last'.moved = 0
                 /\ balances' = balances
                 /\ last'.authority \in {config.relayer_pubkey, config.admin}
                      => last'.res = "AdapterNotAllowed"
       /\ (last'.op = "pause_spoke" /\ last'.res = "Ok") =>
            (SpokePaused(registry', last'.spoke_id)
               /\ ~SpokeActive(registry', last'.spoke_id))
       /\ (last'.op = "enable_spoke" /\ last'.res = "Ok") =>
            SpokeActive(registry', last'.spoke_id)
       /\ \A id \in SpokeIds :
            (SpokePaused(registry, id) /\ ~SpokePaused(registry', id)) =>
               /\ last'.op \in {"enable_spoke", "update_spoke"}
               /\ last'.spoke_id = id
               /\ last'.res = "Ok"]_vars

\* a forward succeeded through a spoke that had been paused and re-enabled
C13_Witness ==
    /\ IsForward
    /\ last.res = "Ok"
    /\ last.spoke_id \in paused_once
    /\ last.moved > 0

(***************************************************************************)
(* Fee routing of forward_via_spoke.                                       *)
(***************************************************************************)
\* the account the relayer fee of the forward is paid to
RelayerDestination ==
    IF registry.spokes[1].direct_relayer_payout
          \/ config.direct_relayer_payout_default
    THEN "relayer_ata" ELSE "pda_hub_relayer_vault_usdc"

\* floor(amount * bps / 10000) when the flag is set, else 0
ExpectedFee(amount, bps, flag) ==
    IF flag THEN (amount * bps) \div BPS_DENOM ELSE 0

BoolToNat(b) == IF b THEN 1 ELSE 0

\* C14: a successful forward_via_spoke(amount, is_protocol_fee,
\* is_relayer_fee) debits the user by exactly amount and credits the
\* protocol vault with p, the relayer destination with r and the adapter
\* target with amount - p - r, where p and r are the floors of
\* amount * bps / 10000 for the flags that are set and 0 otherwise; a zero
\* fee makes no transfer.
C14_ForwardSplit ==
    (IsForward /\ last.res = "Ok") =>
        LET p == ExpectedFee(last.amount, config.protocol_fee_bps,
                             last.is_protocol_fee)
            r == ExpectedFee(last.amount, config.relayer_fee_bps,
                             last.is_relayer_fee)
        IN
        /\ balances["user_ata"] = InitialUserBalance - last.amount
        /\ balances["pda_hub_protocol_vault_usdc"] = p
        /\ balances[RelayerDestination] = r
        /\ balances["adapter_target_ata"] = last.amount - p - r
        /\ last.moved = BoolToNat(p > 0) + BoolToNat(r > 0) + 1
        /\ \A k \in TokenAccountKeys \
                 {"user_ata", "pda_hub_protocol_vault_usdc",
                  RelayerDestination, "adapter_target_ata"} :
              balances[k] = 0

\* amount 10000 at 5 and 100 bps was split into 5, 100 and 9895
C14_Witness ==
    /\ IsForward
    /\ last.res = "Ok"
    /\ last.amount = 10000
    /\ config.protocol_fee_bps = 5
    /\ config.relayer_fee_bps = 100
    /\ last.is_protocol_fee
    /\ last.is_relayer_fee
    /\ balances["pda_hub_protocol_vault_usdc"] = 5
    /\ balances[RelayerDestination] = 100
    /\ balances["adapter_target_ata"] = 9895

(***************************************************************************)
(* update_config as a per-field patch of the persisted Config.             *)
(***************************************************************************)
IsUpdate == last.op = "update_config"

PatchFields == DOMAIN NoPatch

\* C15: a successful update_config changes the persisted Config in exactly
\* the supplied fields: a field passed as Some(v) reads back as v, a field
\* passed as None keeps its previous value; after paused = Some(true) a
\* universal_bridge_transfer does not succeed.
C15_UpdatePersists ==
    [][/\ (IsUpdate' /\ last'.res = "Ok") =>
             \A f \in PatchFields :
                 config'[f] = IF last'.patch[f].some THEN last'.patch[f].val
                              ELSE config[f]
       /\ (IsUpdate /\ last.res = "Ok" /\ last.patch.paused = Some(TRUE)
             /\ IsTransfer') => last'.res = "Paused"]_vars

\* a successful update_config that supplied a field
C15_Witness ==
    /\ IsUpdate
    /\ last.res = "Ok"
    /\ last.authority = config.admin
    /\ last.patch.paused = Some(TRUE)
    /\ events # <<>>

(***************************************************************************)
(* Caps of the fees stored in Config.                                      *)
(***************************************************************************)
IsInitialize == last.op = "initialize_config"

\* the error of a fee pair that is over a cap: the relayer fee is checked
\* first (lib.rs:45-52, 102-109)
CapError(relayer_over, protocol_over) ==
    IF relayer_over THEN "RelayerFeeTooHigh"
    ELSE IF protocol_over THEN "ProtocolFeeTooHigh"
    ELSE "Ok"

\* C16: the persisted Config always has relayer_fee_bps <= 1000 and
\* protocol_fee_bps <= 5; an initialize_config or an update_config by the
\* admin that carries an over-cap value fails with RelayerFeeTooHigh or
\* ProtocolFeeTooHigh and leaves Config as it was.
C16_CapsPersisted ==
    [][/\ config'.relayer_fee_bps <= 1000
       /\ config'.protocol_fee_bps <= 5
       /\ (IsInitialize' /\ ~config.initialized) =>
            LET e == CapError(last'.relayer_fee_bps > 1000,
                              last'.protocol_fee_bps > 5)
            IN e # "Ok" => (last'.res = e /\ config' = config)
       /\ (IsUpdate' /\ config.initialized /\ last'.authority = config.admin) =>
            LET r == last'.patch.relayer_fee_bps
                pfb == last'.patch.protocol_fee_bps
                e == CapError(r.some /\ r.val > 1000,
                              pfb.some /\ pfb.val > 5)
            IN e # "Ok" => (last'.res = e /\ config' = config)]_vars

\* an over-cap update was refused for a Config whose fees sit on the caps
C16_Witness ==
    /\ IsUpdate
    /\ last.res = "ProtocolFeeTooHigh"
    /\ last.patch.protocol_fee_bps.val = 6
    /\ config.relayer_fee_bps = 1000
    /\ config.protocol_fee_bps = 5

(***************************************************************************)
(* The adapter allowlist as a set.                                         *)
(***************************************************************************)
IsAddAdapter == last.op = "add_adapter"

IsRemoveAdapter == last.op = "remove_adapter"

\* the adapters in the used part of the array
Listed(cfg) == {cfg.adapters[i] : i \in 1..cfg.adapters_len}

\* distinct entries below adapters_len, default ids from adapters_len on
AllowlistShape(cfg) ==
    /\ cfg.adapters_len <= 8
    /\ Cardinality(Listed(cfg)) = cfg.adapters_len
    /\ DEFAULT_PUBKEY \notin Listed(cfg)
    /\ \A i \in (cfg.adapters_len + 1)..MAX_ADAPTERS :
           cfg.adapters[i] = DEFAULT_PUBKEY

\* C17: the allowlist array refines a set: the entries below adapters_len
\* are pairwise distinct, adapters_len <= 8 and every slot from adapters_len
\* on holds the default id; a successful add_adapter(a) adds exactly a to
\* the listed set, a successful remove_adapter(a) removes exactly a, a
\* failed call leaves the set as it was, and removing the only adapter
\* leaves adapters_len = 0.
C17_AllowlistIsSet ==
    /\ []AllowlistShape(config)
    /\ [][/\ (IsAddAdapter' /\ last'.res = "Ok") =>
                Listed(config') = Listed(config) \cup {last'.adapter}
          /\ (IsRemoveAdapter' /\ last'.res = "Ok") =>
                /\ Listed(config') = Listed(config) \ {last'.adapter}
                /\ Listed(config) = {last'.adapter} =>
                      config'.adapters_len = 0
          /\ last'.res # "Ok" => Listed(config') = Listed(config)]_vars

\* an adapter in the middle of a full list was removed
C17_Witness ==
    /\ IsRemoveAdapter
    /\ last.res = "Ok"
    /\ last.adapter = "adapter2"
    /\ config.adapters_len = 7
    /\ config.adapters[2] = "adapter8"

(***************************************************************************)
(* Errors of add_adapter and remove_adapter.                               *)
(***************************************************************************)
\* C18: by the admin, add_adapter of a listed adapter fails with
\* AdapterAlreadyExists, also when the list is full; add_adapter of an
\* unlisted adapter fails with AdapterListFull when 8 adapters are listed;
\* remove_adapter of an unlisted adapter fails with AdapterNotAllowed, also
\* on an empty list; each failed call leaves Config unchanged and emits no
\* event.
C18_AllowlistErrors ==
    [][/\ (IsAddAdapter' /\ last'.authority = config.admin) =>
            /\ last'.adapter \in Listed(config) =>
                   last'.res = "AdapterAlreadyExists"
            /\ (last'.adapter \notin Listed(config)
                  /\ Cardinality(Listed(config)) = 8) =>
                   last'.res = "AdapterListFull"
       /\ (IsRemoveAdapter' /\ last'.authority = config.admin
             /\ last'.adapter \notin Listed(config)) =>
            last'.res = "AdapterNotAllowed"
       /\ ((IsAddAdapter' \/ IsRemoveAdapter') /\ last'.res # "Ok") =>
            (config' = config /\ events' = <<>>)]_vars

\* a full list refused a ninth adapter after refusing a listed one
C18_Witness ==
    /\ IsAddAdapter
    /\ last.res = "AdapterListFull"
    /\ last.adapter = "adapter9"
    /\ config.adapters_len = 8
    /\ last.n > 1

(***************************************************************************)
(* The allowlist gate of universal_bridge_transfer.                        *)
(***************************************************************************)
\* C19: universal_bridge_transfer succeeds only if its target adapter is in
\* Config's allowlist at call time: while the target is not listed (before
\* add_adapter, and after remove_adapter until it is added again) a
\* transfer fails and moves no funds, with AdapterNotAllowed when its
\* accounts, amount and payload length are valid.
C19_TransferNeedsListedAdapter ==
    [][(IsTransfer' /\ last'.target \notin Listed(config)) =>
          /\ last'.res # "Ok"
          /\ last'.moved = 0
          /\ UNCHANGED StateVars
          /\ events' = <<>>
          /\ (last'.accounts = "Ok" /\ last'.amount > 0
                /\ last'.payload_len <= MAX_PAYLOAD_LEN) =>
                 last'.res = "AdapterNotAllowed"]_vars

\* a transfer was refused for an adapter that had been listed and served a
\* transfer before it was removed
C19_Witness ==
    /\ IsTransfer
    /\ last.res = "AdapterNotAllowed"
    /\ last.target = "adapterA"
    /\ Listed(config) = {}
    /\ balances["ata_tokenprogram_usdc"] > 0

(***************************************************************************)
(* The mint gate of universal_bridge_transfer.                             *)
(***************************************************************************)
\* C20: when Config.accept_any_token is false, a universal_bridge_transfer
\* whose mint differs from Config.allowed_token_mint is rejected and moves
\* no funds.
C20_OtherMintRejected ==
    (IsTransfer /\ ~config.accept_any_token
       /\ last.mint # config.allowed_token_mint) =>
        (last.res # "Ok" /\ last.moved = 0)

\* a transfer of the allowed mint went through with accept_any_token false
C20_Witness ==
    /\ IsTransfer
    /\ ~config.accept_any_token
    /\ last.mint = config.allowed_token_mint
    /\ last.mint = OTHER_MINT
    /\ last.res = "Ok"
    /\ last.moved = 2

(***************************************************************************)
(* The hashes in the events of universal_bridge_transfer.                  *)
(***************************************************************************)
\* the UniversalBridgeInitiated events of the last transaction
InitiatedEvents ==
    {events[i] : i \in {j \in 1..Len(events) :
                           events[j].type = "UniversalBridgeInitiated"}}

\* C21: every UniversalBridgeInitiated event of a successful
\* universal_bridge_transfer carries the canonical message hash of the
\* transfer's (src_chain_id, src_adapter, recipient, asset, forwarded
\* amount, payload_hash, nonce, dst_chain_id) and the canonical route id of
\* (src_chain_id, dst_chain_id, initiator, message_hash, nonce).
C21_EventHashesCanonical ==
    (IsTransfer /\ last.res = "Ok") =>
        \A e \in InitiatedEvents :
            /\ e.message_hash =
                 message_hash_be(config.src_chain_id, e.target, ZERO_HASH,
                                 e.token, e.forwarded_amount, e.payload_hash,
                                 e.nonce, e.dst_chain_id)
            /\ e.global_route_id =
                 global_route_id(config.src_chain_id, e.dst_chain_id, e.user,
                                 e.message_hash, e.nonce)

\* a successful transfer emitted its UniversalBridgeInitiated event
C21_Witness ==
    /\ IsTransfer
    /\ last.res = "Ok"
    /\ last.moved = 2
    /\ \E e \in InitiatedEvents : e.forwarded_amount = 8995 /\ e.nonce = 1

(***************************************************************************)
(* The byte layout of the canonical hashes.                                *)
(***************************************************************************)
IsMessageHash == last.op = "message_hash_be"

IsRouteId == last.op = "global_route_id"

RECURSIVE be_value(_, _)
\* the number whose big-endian bytes are the first n bytes of b, or -1 when
\* it is 2^30 or more
be_value(b, n) ==
    IF n = 0 THEN 0
    ELSE LET hi == be_value(b, n - 1) IN
         IF hi < 0 \/ hi >= 4194304 THEN -1 ELSE hi * 256 + b[n]

\* the fields of message_hash_be at their offsets in the hashed bytes b
MessageLayout(b, a) ==
    /\ be_value(SubSeq(b, 1, 8), 8) = a[1]
    /\ SubSeq(b, 9, 40) = a[2]
    /\ SubSeq(b, 41, 72) = a[3]
    /\ SubSeq(b, 73, 104) = a[4]
    /\ SubSeq(b, 105, 136) = a[5]
    /\ SubSeq(b, 137, 168) = a[6]
    /\ be_value(SubSeq(b, 169, 176), 8) = a[7]
    /\ be_value(SubSeq(b, 177, 184), 8) = a[8]

\* the fields of global_route_id at their offsets in the hashed bytes b
RouteLayout(b, a) ==
    /\ Len(b) = 88
    /\ be_value(SubSeq(b, 1, 8), 8) = a[1]
    /\ be_value(SubSeq(b, 9, 16), 8) = a[2]
    /\ SubSeq(b, 17, 48) = a[3]
    /\ SubSeq(b, 49, 80) = a[4]
    /\ be_value(SubSeq(b, 81, 88), 8) = a[5]

\* a repeated call with the same inputs gives the same output, and no
\* router state is written
HashPure ==
    /\ (last # NoCall /\ last'.op = last.op /\ last'.args = last.args) =>
           last'.out = last.out
    /\ UNCHANGED StateVars

\* C22 as stated: message_hash_be hashes exactly the 208 bytes
\* BE64(src_chain_id) | src_adapter | recipient | asset | amount |
\* payload_hash | BE64(nonce) | BE64(dst_chain_id) and global_route_id
\* exactly the 88 bytes BE64(src_chain_id) | BE64(dst_chain_id) | initiator
\* | message_hash | BE64(nonce); identical inputs give identical outputs and
\* no router state is read or written.
C22_HashLayout208 ==
    [][/\ IsMessageHash' =>
            (Len(last'.out.keccak256) = 208
               /\ MessageLayout(last'.out.keccak256, last'.args))
       /\ IsRouteId' => RouteLayout(last'.out.keccak256, last'.args)
       /\ HashPure]_vars

\* C22, amended: the bytes message_hash_be hashes are those eight fields in
\* that order and nothing else, 184 bytes in all (8 + 5 * 32 + 8 + 8);
\* global_route_id hashes the 88 bytes stated; both are pure.
C22_HashLayout ==
    [][/\ IsMessageHash' =>
            (Len(last'.out.keccak256) = 184
               /\ MessageLayout(last'.out.keccak256, last'.args))
       /\ IsRouteId' => RouteLayout(last'.out.keccak256, last'.args)
       /\ HashPure]_vars

\* chain id 42161 = 0xA4B1 was packed as the bytes .. A4 B1 of a message,
\* in an initialized hub
C22_Witness ==
    /\ IsMessageHash
    /\ config.initialized
    /\ last.args[1] = 42161
    /\ last.args[7] = 300
    /\ last.out.keccak256[7] = 164
    /\ last.out.keccak256[8] = 177
    /\ last.out.keccak256[175] = 1
    /\ last.out.keccak256[176] = 44

(***************************************************************************)
(* The two vault patterns.                                                 *)
(***************************************************************************)
IsVaultCheck == last.op = "validate_vault_pda_or_authority"

\* C23: validate_vault_pda_or_authority(account, mint) succeeds exactly
\* when the account is owned by the token program and its recorded
\* authority is the address derived from (hub_protocol_vault, mint),
\* whether the account's address is the derived one (pattern A) or not
\* (pattern B), with the bump of the derivation in both cases; a
\* token-program-owned account under another authority is rejected and an
\* account not owned by the token program fails with InvalidTokenProgram.
C23_VaultPatterns ==
    IsVaultCheck =>
        LET acc == last.acc
            pda == hub_protocol_vault_pda(last.mint)
        IN
        /\ last.out.res = "Ok" <=>
              (acc.program_owner = TOKEN_ID /\ acc.owner = pda)
        /\ last.out.res = "Ok" =>
              (last.out.bump = hub_protocol_vault_bump(last.mint)
                 /\ last.out.expected = pda)
        /\ acc.program_owner # TOKEN_ID =>
              last.out.res = "InvalidTokenProgram"
        /\ (acc.program_owner = TOKEN_ID /\ acc.owner # pda) =>
              last.out.res \in {"InvalidVaultOwner", "InvalidVaultPda"}

\* pattern B: an account at another address under the PDA's authority was
\* accepted
C23_Witness ==
    /\ IsVaultCheck
    /\ last.out.res = "Ok"
    /\ last.acc.key = "vault_b"
    /\ last.acc.owner = hub_protocol_vault_pda(last.mint)
    /\ last.mint = OTHER_MINT

(***************************************************************************)
(* Adapter failures and the adapters' replay records.                      *)
(***************************************************************************)
IsPassthrough == last.op = "adapter_passthrough"

IsBridgeCpi == last.op = "bridge_with_adapter_cpi"

IsProcessTransfer == last.op = "process_transfer"

\* C24: whenever the adapter invoked by adapter_passthrough or
\* bridge_with_adapter_cpi returns a failure, the router call fails and
\* nothing it or the adapter did persists: the replay records and all
\* balances are as before the call, and no event is left.
C24_AdapterFailureRollsBack ==
    [][((IsPassthrough' \/ IsBridgeCpi') /\ last'.adapter_res # "Ok") =>
          /\ last'.res # "Ok"
          /\ UNCHANGED StateVars
          /\ events' = <<>>]_vars

\* the adapter set the replay flag and then failed on the data; the flag
\* is clear after the failed passthrough
C24_Witness ==
    /\ IsPassthrough
    /\ last.adapter = "mock_adapter"
    /\ last.adapter_res = "Custom1"
    /\ last.res = "Unauthorized"
    /\ adapter_replay[last.replay] = 0

\* C25: once a process_transfer, sent directly or through
\* adapter_passthrough, has succeeded on a replay record, the record has
\* processed = 1, every later process_transfer or passthrough using that
\* record fails, and processed never returns to 0.
C25_AdapterReplayGuard ==
    [][/\ \A k \in ReplayAccountKeys :
              adapter_replay[k] = 1 => adapter_replay'[k] = 1
       /\ ((IsProcessTransfer' \/ IsPassthrough') /\ last'.res = "Ok") =>
              /\ adapter_replay[last'.replay] = 0
              /\ adapter_replay'[last'.replay] = 1
       /\ ((IsProcessTransfer' \/ IsPassthrough')
             /\ adapter_replay[last'.replay] = 1) =>
              (last'.res # "Ok" /\ UNCHANGED StateVars)]_vars

\* a second passthrough on a processed record was refused
C25_Witness ==
    /\ IsPassthrough
    /\ last.adapter_res = "Custom2"
    /\ last.res # "Ok"
    /\ adapter_replay[last.replay] = 1
    /\ \E k \in ReplayAccountKeys :
           replay_owner(k) = "zpx_adapter" /\ adapter_replay[k] = 1


IsCreateSpoke == last # NoCall /\ last.op = "create_spoke"

\* the caller passes the admin check of lib.rs:465-468
SpokeCallAuthorized == spoke_admin_ok(config, last'.authority, last'.admin)

SpokeIdPresent(reg, spoke_id) ==
    \E i \in 1..Len(reg.spokes) : reg.spokes[i].spoke_id = spoke_id

\* C26 as stated: an authorized create_spoke with a spoke_id already in the
\* Registry fails with AdapterAlreadyExists, one on a Registry of 32 spokes
\* fails with AdapterListFull, and both leave the Registry unchanged.
C26_CreateSpokeRejectsStated ==
    [][(IsCreateSpoke' /\ SpokeCallAuthorized) =>
          /\ SpokeIdPresent(registry, last'.spoke_id) =>
                 (last'.res = "AdapterAlreadyExists" /\ registry' = registry)
          /\ registry.spokes_len = MAX_SPOKES =>
                 (last'.res = "AdapterListFull" /\ registry' = registry)]_vars

\* C26: an authorized create_spoke on a Registry of 32 spokes fails with
\* AdapterListFull whatever the spoke_id; on a Registry of fewer spokes one
\* with a spoke_id already present fails with AdapterAlreadyExists; in both
\* cases spokes_len and every entry are unchanged.
C26_CreateSpokeRejects ==
    [][(IsCreateSpoke' /\ SpokeCallAuthorized) =>
          /\ (SpokeIdPresent(registry, last'.spoke_id)
                /\ registry.spokes_len < MAX_SPOKES) =>
                 (last'.res = "AdapterAlreadyExists" /\ registry' = registry)
          /\ registry.spokes_len = MAX_SPOKES =>
                 (last'.res = "AdapterListFull" /\ registry' = registry)
          /\ (SpokeIdPresent(registry, last'.spoke_id)
                \/ registry.spokes_len = MAX_SPOKES) <=> last'.res # "Ok"]_vars

C26_Witness ==
    /\ IsCreateSpoke /\ last.authority = "admin"
    /\ last.res = "AdapterListFull"
    /\ registry.spokes_len = MAX_SPOKES
    /\ SpokeIdPresent(registry, last.spoke_id)


IsInitializeConfig == last # NoCall /\ last.op = "initialize_config"

\* C27: once the Config exists every initialize_config call fails and leaves
\* the Config unchanged, so at most one call ever succeeds; the Config a
\* successful call leaves has an empty allowlist and paused = false.
C27_InitializeOnce ==
    [][IsInitializeConfig' =>
          /\ config.initialized =>
                 (last'.res # "Ok" /\ config' = config /\ events' = <<>>)
          /\ last'.res = "Ok" =>
                 /\ ~config.initialized /\ config'.initialized
                 /\ config'.adapters_len = 0
                 /\ \A i \in 1..MAX_ADAPTERS :
                        config'.adapters[i] = DEFAULT_PUBKEY
                 /\ config'.paused = FALSE]_vars

C27_Witness ==
    /\ IsInitializeConfig /\ last.res = "AccountAlreadyInUse"
    /\ config.initialized /\ config.adapters_len > 0
    /\ last.relayer_fee_bps # config.relayer_fee_bps



\* C28: validate_payload_len, and validate_common on a positive amount with
\* the router not paused and the source chain set, return Ok for every
\* length up to 512 and PayloadTooLarge for every length from 513 on;
\* validate_common never accepts a longer payload, and a
\* universal_bridge_transfer with one fails and moves no funds.
C28_PayloadLimit ==
    [][/\ last'.op = "validate_payload_len" =>
            /\ last'.payload_len <= 512 => last'.out = "Ok"
            /\ last'.payload_len >= 513 => last'.out = "PayloadTooLarge"
       /\ (last'.op = "validate_common" /\ ~last'.paused
             /\ last'.src_chain_id # 0 /\ last'.amount > 0) =>
            /\ last'.payload_len <= 512 => last'.out = "Ok"
            /\ last'.payload_len >= 513 => last'.out = "PayloadTooLarge"
       /\ (last'.op = "validate_common" /\ last'.payload_len >= 513) =>
            last'.out # "Ok"
       /\ (IsTransfer' /\ last'.payload_len >= 513) =>
            /\ last'.res # "Ok" /\ last'.moved = 0
            /\ balances' = balances /\ events' = <<>>
       /\ (IsTransfer' /\ last'.payload_len >= 513 /\ last'.amount > 0
             /\ last'.accounts = "Ok") =>
            last'.res = "PayloadTooLarge"]_vars

C28_Witness ==
    /\ IsTransfer /\ last.payload_len = 513 /\ last.amount = 10000
    /\ last.res = "PayloadTooLarge"
    /\ balances["user_ata"] = InitialUserBalance


\* C29: a universal_bridge_transfer whose accounts validate fails with
\* ChainIdOutOfRange, changing nothing, whenever Config.src_chain_id or
\* dst_chain_id exceeds 65535, and the chain ids in every BridgeInitiated and
\* UniversalBridgeInitiated event equal the full values of the Config and
\* of the call.
C29_ChainIdWidth ==
    [][IsTransfer' =>
          /\ (last'.accounts = "Ok"
                /\ (config.src_chain_id > 65535
                      \/ last'.dst_chain_id > 65535)) =>
                 /\ last'.res = "ChainIdOutOfRange"
                 /\ UNCHANGED StateVars /\ events' = <<>>
          /\ \A i \in 1..Len(events') :
                 events'[i].type \in {"BridgeInitiated",
                                      "UniversalBridgeInitiated"} =>
                     /\ events'[i].src_chain_id = config.src_chain_id
                     /\ events'[i].dst_chain_id = last'.dst_chain_id]_vars

C29_Witness ==
    /\ IsTransfer /\ last.res = "ChainIdOutOfRange"
    /\ config.src_chain_id = U16_MAX + 2 /\ last.dst_chain_id = 2
    /\ last.amount = 10000 /\ balances["user_ata"] = InitialUserBalance


RegistryShape(reg) ==
    /\ reg.spokes_len <= 32
    /\ Len(reg.spokes) = reg.spokes_len
    /\ \A i, j \in 1..reg.spokes_len :
           i # j => reg.spokes[i].spoke_id # reg.spokes[j].spoke_id

\* C30: in every reachable state the Registry holds at most 32 spokes with
\* pairwise distinct spoke_ids, and no step lowers spokes_len or changes
\* the spoke_id of an existing entry.
C30_RegistryAppendOnly ==
    /\ []RegistryShape(registry)
    /\ [][/\ registry'.spokes_len >= registry.spokes_len
          /\ \A i \in 1..registry.spokes_len :
                 registry'.spokes[i].spoke_id = registry.spokes[i].spoke_id]_vars

C30_Witness ==
    /\ registry.spokes_len = MAX_SPOKES
    /\ last # NoCall /\ last.op = "update_spoke" /\ last.res = "Ok"
    /\ last.spoke_id = MAX_SPOKES
    /\ registry.spokes[MAX_SPOKES].spoke_id = MAX_SPOKES
    /\ registry.spokes[MAX_SPOKES].adapter_program = "adapterB"


\* C31: a finalize leaves the replay records and telemetry counts of all
\* other message hashes, Config, Registry, the adapter replay records and
\* every token balance unchanged, and whether it succeeds depends on the
\* record of its own hash only: a call that passes validation succeeds
\* exactly when its own record is not Processed, whatever the other records
\* hold.
C31_FinalizeFrame ==
    [][IsFinalize' =>
          /\ \A h \in MessageHashes :
                 h # last'.message_hash =>
                     (replay'[h] = replay[h] /\ telemetry'[h] = telemetry[h])
          /\ config' = config /\ registry' = registry
          /\ balances' = balances /\ adapter_replay' = adapter_replay
          /\ last'.moved = 0
          /\ last'.validated = "Ok" =>
                 (last'.res = "Ok" <=> replay[last'.message_hash].processed # 1)]_vars

C31_Witness ==
    /\ IsFinalize /\ last.res = "Ok"
    /\ \E h1, h2 \in MessageHashes :
           /\ h1 # last.message_hash /\ h2 # last.message_hash /\ h1 # h2
           /\ replay[h1].processed = 1 /\ ~replay[h2].initialized
           /\ replay[last.message_hash].processed = 1


\* the first violated check of the fee engine in the stated order
FirstFeeViolation(amount, protocol_fee, relayer_fee, relayer_bps_cap) ==
    IF amount = 0 THEN "ZeroAmount"
    ELSE IF protocol_fee * 10000 > amount * 5 THEN "ProtocolFeeTooHigh"
    ELSE IF relayer_bps_cap > 0 /\ relayer_fee * 10000 > amount * relayer_bps_cap
    THEN "RelayerFeeTooHigh"
    ELSE IF protocol_fee + relayer_fee > U64_MAX THEN "MathOverflow"
    ELSE IF protocol_fee + relayer_fee > amount THEN "FeesExceedAmount"
    ELSE "Ok"

\* C32: compute_fees_and_forward returns the first violated check in the
\* order ZeroAmount, ProtocolFeeTooHigh, RelayerFeeTooHigh (only when
\* relayer_bps_cap > 0), MathOverflow, FeesExceedAmount, and Ok when none is
\* violated; with amount = 0 it returns ZeroAmount for all fees and caps.
C32_FeeCheckOrder ==
    [][IsFeeCall' =>
          /\ last'.out.res = FirstFeeViolation(last'.amount, last'.protocol_fee,
                                               last'.relayer_fee,
                                               last'.relayer_bps_cap)
          /\ last'.amount = 0 => last'.out.res = "ZeroAmount"]_vars

C32_Witness ==
    /\ IsFeeCall /\ last.amount = 0 /\ last.protocol_fee = U64_MAX
    /\ last.relayer_fee = U64_MAX /\ last.relayer_bps_cap = 1
    /\ last.out.res = "ZeroAmount"


IsEnableSpoke == last # NoCall /\ last.op = "enable_spoke"

\* C33: every spoke of the Registry has enabled = TRUE in every reachable
\* state, no step changes the enabled flag of an existing spoke, and a
\* successful enable_spoke changes nothing but the paused flag of its spoke.
C33_EnabledNeverCleared ==
    /\ [](\A i \in 1..registry.spokes_len : registry.spokes[i].enabled)
    /\ [][/\ \A i \in 1..registry.spokes_len :
                 registry'.spokes[i].enabled = registry.spokes[i].enabled
          /\ (IsEnableSpoke' /\ last'.res = "Ok") =>
                 /\ registry'.spokes_len = registry.spokes_len
                 /\ \A i \in 1..registry.spokes_len :
                        registry'.spokes[i] =
                            IF registry.spokes[i].spoke_id = last'.spoke_id
                            THEN [registry.spokes[i] EXCEPT !.paused = FALSE]
                            ELSE registry.spokes[i]
                 /\ config' = config /\ balances' = balances]_vars

C33_Witness ==
    /\ IsEnableSpoke /\ last.res = "Ok" /\ last.spoke_id = 2 /\ last.n = 2
    /\ registry.spokes_len >= 2
    /\ registry.spokes[1].paused /\ registry.spokes[1].enabled
    /\ ~registry.spokes[2].paused /\ registry.spokes[2].enabled


ForwardAuthorized(cfg, caller) ==
    cfg.initialized /\ (caller = cfg.relayer_pubkey \/ caller = cfg.admin)

\* the program is the adapter of a registered, enabled, unpaused spoke
BoundToActiveSpoke(reg, program) ==
    \E i \in 1..reg.spokes_len :
        /\ reg.spokes[i].adapter_program = program
        /\ reg.spokes[i].enabled /\ ~reg.spokes[i].paused

\* C35: an adapter_passthrough by a caller that is neither
\* Config.relayer_pubkey nor Config.admin, or into a program that is not the
\* adapter of an existing, enabled, unpaused spoke, fails without an adapter
\* having run to success and without a write to a replay record.
C35_PassthroughGated ==
    [][(IsPassthrough'
          /\ ~(ForwardAuthorized(config, last'.authority)
                 /\ BoundToActiveSpoke(registry, last'.adapter))) =>
          /\ last'.res # "Ok"
          /\ adapter_replay' = adapter_replay]_vars

\* a stranger's passthrough into a program no spoke names marked a replay
\* record
C35_Witness ==
    /\ IsPassthrough /\ last.authority = "mallory"
    /\ last.adapter = "mock_adapter" /\ last.res = "Ok"
    /\ ~BoundToActiveSpoke(registry, "mock_adapter")
    /\ adapter_replay[last.replay] = 1


\* C36: a forward_via_spoke succeeds only when its relayer signer is
\* Config.relayer_pubkey or Config.admin; with any other relayer signer a
\* call on the initialized hub fails with Unauthorized, whether or not the
\* spoke exists, and changes nothing.
C36_ForwardCallerGate ==
    [][IsForward' =>
          /\ last'.res = "Ok" =>
                 (last'.authority = config.relayer_pubkey
                    \/ last'.authority = config.admin)
          /\ (config.initialized /\ registry.initialized
                /\ last'.authority # config.relayer_pubkey
                /\ last'.authority # config.admin) =>
                 /\ last'.res = "Unauthorized" /\ last'.moved = 0
                 /\ UNCHANGED StateVars /\ events' = <<>>]_vars

C36_Witness ==
    /\ IsForward /\ last.authority = "mallory" /\ last.spoke_id = 2
    /\ last.res = "Unauthorized" /\ registry.spokes_len = 1
    /\ balances["user_ata"] = InitialUserBalance


IsForwardFees == last # NoCall /\ last.op = "forward_fees"

\* C37: for every amount > 0 and every Config within the caps
\* (protocol_fee_bps <= 5, relayer_fee_bps <= 1000) the fee computation of
\* forward_via_spoke succeeds with protocol fee + relayer fee < amount, the
\* sum within u64 and net_amount = amount - fees >= 1; a forward_via_spoke
\* on such a Config never fails with MathOverflow or FeesExceedAmount, and
\* with ZeroAmount only for amount = 0.
C37_ForwardFeesBelowAmount ==
    [][/\ (IsForwardFees' /\ last'.amount > 0
             /\ last'.protocol_fee_bps <= 5
             /\ last'.relayer_fee_bps <= 1000) =>
            /\ last'.out.res = "Ok"
            /\ last'.out.proto_fee + last'.out.relayer_fee < last'.amount
            /\ last'.out.proto_fee + last'.out.relayer_fee <= U64_MAX
            /\ last'.out.net_amount
                 = last'.amount - last'.out.proto_fee - last'.out.relayer_fee
            /\ last'.out.net_amount >= 1
       /\ IsForwardFees' =>
            last'.out.check \notin {"checked_add", "total_fees", "net_amount"}
       /\ (IsForward' /\ config.protocol_fee_bps <= 5
             /\ config.relayer_fee_bps <= 1000) =>
            /\ last'.res \notin {"MathOverflow", "FeesExceedAmount"}
            /\ last'.res = "ZeroAmount" => last'.amount = 0]_vars

C37_Witness ==
    /\ IsForwardFees /\ last.amount = U64_MAX
    /\ last.protocol_fee_bps = 5 /\ last.relayer_fee_bps = 1000
    /\ last.is_protocol_fee /\ last.is_relayer_fee
    /\ last.out.res = "Ok" /\ last.out.proto_fee > 0
    /\ last.out.relayer_fee > 0 /\ last.out.net_amount >= 1


\* C38: a successful initialize_config stores the admin it was passed, and
\* from then on no step changes Config.admin.
C38_AdminFixed ==
    [][/\ (IsInitializeConfig' /\ last'.res = "Ok") =>
              (config'.initialized /\ config'.admin = last'.admin)
       /\ config.initialized =>
              (config'.initialized /\ config'.admin = config.admin)]_vars

C38_Witness ==
    /\ config.initialized /\ config.admin = "mallory"
    /\ config.adapters_len > 0
    /\ last.op = "update_config" /\ last.authority = "mallory"
    /\ last.res = "Ok"


IsUpdateSpoke == last # NoCall /\ last.op = "update_spoke"

IsSpokeToggle == last # NoCall /\ last.op \in {"pause_spoke", "enable_spoke"}

\* the entry after a patch: each supplied field takes its value, the
\* metadata cut or zero-padded to 16 bytes, every other field stays
PatchedEntry(e, p) ==
    [spoke_id |-> e.spoke_id,
     adapter_program |-> IF p.adapter_program.some
                         THEN p.adapter_program.val ELSE e.adapter_program,
     enabled |-> e.enabled,
     paused |-> IF p.paused.some THEN p.paused.val ELSE e.paused,
     direct_relayer_payout |-> IF p.direct_relayer_payout.some
                               THEN p.direct_relayer_payout.val
                               ELSE e.direct_relayer_payout,
     version |-> e.version,
     metadata |-> IF p.metadata.some
                  THEN [k \in 1..16 |-> IF k <= Len(p.metadata.val)
                                        THEN p.metadata.val[k] ELSE 0]
                  ELSE e.metadata,
     created_at_slot |-> e.created_at_slot]

\* C39: an update_spoke by the admin on a registered spoke_id succeeds and
\* changes, in the entry with that id, exactly the supplied fields among
\* adapter_program, direct_relayer_payout, paused and metadata; its
\* spoke_id, enabled, version and creation slot, every other entry,
\* spokes_len and the rest of the state are unchanged.  On an unknown
\* spoke_id update_spoke, pause_spoke and enable_spoke fail with
\* AdapterNotAllowed and change nothing.
C39_UpdateSpokePatch ==
    [][/\ (IsUpdateSpoke' /\ SpokeIdPresent(registry, last'.spoke_id)) =>
            /\ last'.res = "Ok"
            /\ registry'.spokes_len = registry.spokes_len
            /\ registry'.initialized = registry.initialized
            /\ \A i \in 1..registry.spokes_len :
                   registry'.spokes[i] =
                       IF registry.spokes[i].spoke_id = last'.spoke_id
                       THEN PatchedEntry(registry.spokes[i], last'.patch)
                       ELSE registry.spokes[i]
            /\ config' = config /\ balances' = balances
       /\ ((IsUpdateSpoke' \/ IsSpokeToggle')
             /\ ~SpokeIdPresent(registry, last'.spoke_id)) =>
            /\ last'.res = "AdapterNotAllowed"
            /\ UNCHANGED StateVars /\ events' = <<>>]_vars

C39_Witness ==
    /\ IsUpdateSpoke /\ last.res = "Ok" /\ last.spoke_id = 2
    /\ last.patch.adapter_program = Some("adapterB")
    /\ ~last.patch.paused.some /\ ~last.patch.direct_relayer_payout.some
    /\ last.patch.metadata.some /\ Len(last.patch.metadata.val) = 17
    /\ registry.spokes[2].adapter_program = "adapterB"
    /\ registry.spokes[2].direct_relayer_payout
    /\ registry.spokes[2].version = 2
    /\ registry.spokes[2].created_at_slot = 200
    /\ registry.spokes[2].metadata[16] = 16
    /\ registry.spokes[1].adapter_program = "adapterA"


\* the payloads each CCTP adapter is stated to accept
CctpAccepts(program, payload) ==
    IF program = "cctp_v1"
    THEN Len(payload) >= 1 /\ Head(payload) = 0
    ELSE Len(payload) >= 2 /\ SubSeq(payload, 1, 2) = <<0, 1>>

\* C40: on a message whose replay record is unprocessed the CCTP v1 adapter
\* succeeds exactly on payloads with payload[0] = 0 and the v2 adapter
\* exactly on payloads starting 0, 1, every other payload failing with
\* InvalidPayload and leaving the record at 0 (so a record whose last call
\* was rejected for its payload is still unprocessed); a success sets the
\* record; on a processed record the call fails with ReplayProcessed
\* whatever the payload.
C40_CctpPayloadGate ==
    /\ [](IsProcessTransfer /\ last.res = "InvalidPayload"
            => adapter_replay[last.replay] = 0)
    /\ [][IsProcessTransfer' =>
            IF adapter_replay[last'.replay] # 0
            THEN last'.res = "ReplayProcessed" /\ UNCHANGED StateVars
            ELSE IF CctpAccepts(last'.adapter, last'.payload)
            THEN /\ last'.res = "Ok"
                 /\ adapter_replay' =
                        [adapter_replay EXCEPT ![last'.replay] = 1]
            ELSE last'.res = "InvalidPayload" /\ UNCHANGED StateVars]_vars

C40_Witness ==
    /\ IsProcessTransfer /\ last.adapter = "cctp_v2" /\ last.res = "Ok"
    /\ last.before = "InvalidPayload" /\ last.payload = <<0, 1, 5>>
    /\ adapter_replay[last.replay] = 1

====
